---- MODULE Spec2Model ----
(***************************************************************************)
(* Harvest MCP server: the tool-invocation layer.                          *)
(*                                                                         *)
(* The model follows the current variant of the server source              *)
(* (src/unnamed/part_002, lines 40-610): startup validation, the axios     *)
(* client with its request interceptor, the sliding-window write throttle, *)
(* the pagination aggregator, the two error formatters, the input schemas  *)
(* and the seven tool handlers.  src/src/index.ts is an earlier variant of *)
(* the same file (no throttle, no interceptor, single-page listing).       *)
(*                                                                         *)
(* A handler runs from its invocation to its first network suspension      *)
(* point in one step and resumes in one step when the upstream answers.    *)
(* The handler whose steps are followed is the one in call; the host may   *)
(* deliver a further invocation while it awaits, and it then waits among   *)
(* the suspended ones until its answer arrives.  Date.now() is read as a   *)
(* non-decreasing clock in milliseconds.                                   *)
(***************************************************************************)
EXTENDS Integers, Sequences, FiniteSets, Bags, TLC

(***************************************************************************)
(* Program constants                                                       *)
(***************************************************************************)
RATE_LIMIT_WINDOW_MS == 60000

RATE_LIMIT_MAX_WRITES == 30

perPage == 100

HARVEST_API_BASE == "https://api.harvestapp.com/v2"

(***************************************************************************)
(* Bounds of the model                                                     *)
(***************************************************************************)
\* the clock never advances beyond this many milliseconds
MaxClock == 119999

\* an invocation of a listing tool issues at most this many page requests
MaxPageRequests == 3

\* the study of the input schemas stops calling tools after this many writes
MaxInputWrites == 2

\* the study of today's entries stops after this many midnights
MaxDays == 2

\* at most this many handlers are suspended at their await at a time
MaxSuspended == 3

(***************************************************************************)
(* Optional values: <<>> is undefined, <<v>> is the value v                *)
(***************************************************************************)
None == <<>>

Some(v) == <<v>>

IsSome(o) == o # <<>>

\* JavaScript truthiness of an optional string: undefined and "" are falsy
TruthyStr(o) == o # <<>> /\ o[1] # ""

\* JavaScript truthiness of an optional number: undefined and 0 are falsy
TruthyNum(o) == o # <<>> /\ o[1] # 0

\* a || b on optional strings
OrStr(a, b) == IF TruthyStr(a) THEN a ELSE b

\* template-literal rendering of an optional string
StrOf(o) == IF o = <<>> THEN "undefined" ELSE o[1]

(***************************************************************************)
(* Values                                                                  *)
(***************************************************************************)
\* the seven tools in registration order
Tools == <<"list_projects", "list_project_tasks", "log_time", "get_todays_time",
           "start_timer", "stop_timer", "update_time_entry">>

WriteTools == {"log_time", "start_timer", "stop_timer", "update_time_entry"}

ReadTools == {"list_projects", "list_project_tasks", "get_todays_time"}

\* a failure object as the handlers and formatters see it: an Error (name,
\* message, code) that, when it comes from axios, carries the response and the
\* request configuration with its headers
ErrorObj(name, message, code, response, config) ==
    [name |-> name, message |-> message, code |-> code,
     response |-> response, config |-> config]

\* an upstream response: status and body
Response(status, data) == [status |-> status, data |-> data]

\* the body of an upstream error response
ErrorBody(message, error) == [message |-> message, error |-> error]

(***************************************************************************)
(* Helpers                                                                 *)
(***************************************************************************)
RECURSIVE Join(_, _)
\* Array.prototype.join
Join(parts, sep) ==
    IF parts = <<>> THEN ""
    ELSE IF Len(parts) = 1 THEN parts[1]
    ELSE parts[1] \o sep \o Join(Tail(parts), sep)

\* the ISO calendar date of a day of January 1970, counted from the epoch
IsoDate(day) ==
    "1970-01-" \o (IF day + 1 < 10 THEN "0" ELSE "") \o ToString(day + 1)

\* formatDate(date): date.toISOString().split('T')[0], the UTC calendar date
formatDate(ms) == IsoDate(ms \div 86400000)

\* template-literal rendering of a number kept in hundredths: 250 is "2.5"
NumStr(h) ==
    LET i == h \div 100
        f == h % 100
    IN  IF f = 0 THEN ToString(i)
        ELSE IF f % 10 = 0 THEN ToString(i) \o "." \o ToString(f \div 10)
        ELSE IF f < 10 THEN ToString(i) \o ".0" \o ToString(f)
        ELSE ToString(i) \o "." \o ToString(f)

\* error?.response?.status
StatusOf(error) ==
    IF error.response = None THEN None ELSE error.response[1].status

\* error?.response?.data?.<field>
DataMessageOf(error) ==
    IF error.response = None THEN None
    ELSE IF error.response[1].data = None THEN None
    ELSE error.response[1].data[1].message

DataErrorOf(error) ==
    IF error.response = None THEN None
    ELSE IF error.response[1].data = None THEN None
    ELSE error.response[1].data[1].error

PermissionHint ==
    ". This usually means your token lacks permission for that endpoint. Try using endpoints under /users/me/* (like /users/me/project_assignments), and verify HARVEST_ACCOUNT_ID matches the token's account."

\* formatHarvestError preferring the transport message to the upstream body
formatHarvestError_MessageFirst(error) ==
    LET status     == StatusOf(error)
        apiMessage == OrStr(DataMessageOf(error), DataErrorOf(error))
        message    == StrOf(OrStr(OrStr(error.message, apiMessage), Some("Unknown error")))
    IN  IF status = Some(403)
          THEN "Harvest API error (403): " \o message \o PermissionHint
          ELSE "Harvest API error"
                 \o (IF TruthyNum(status) THEN " (" \o ToString(status[1]) \o ")" ELSE "")
                 \o ": " \o message

formatHarvestError(error) ==
    LET status     == StatusOf(error)
        apiMessage == OrStr(DataMessageOf(error), DataErrorOf(error))
        message    == StrOf(OrStr(OrStr(apiMessage, error.message), Some("Unknown error")))
    IN  IF status = Some(403)
          THEN "Harvest API error (403): " \o message \o PermissionHint
          ELSE "Harvest API error"
                 \o (IF TruthyNum(status) THEN " (" \o ToString(status[1]) \o ")" ELSE "")
                 \o ": " \o message

\* String(error) of an Error object: its name, followed by the message if any
StringOfError(error) ==
    IF TruthyStr(error.message) THEN error.name \o ": " \o error.message[1]
    ELSE error.name

\* the argument is <<>> for null/undefined, <<e>> for a failure object e
sanitizeErrorForLogging(errOpt) ==
    IF errOpt = None THEN "Unknown error"
    ELSE LET error == errOpt[1]
             p1 == IF TruthyStr(error.message) THEN <<error.message[1]>> ELSE <<>>
             p2 == IF TruthyNum(StatusOf(error))
                     THEN <<"HTTP " \o ToString(StatusOf(error)[1])>> ELSE <<>>
             p3 == IF TruthyStr(DataMessageOf(error))
                     THEN <<DataMessageOf(error)[1]>> ELSE <<>>
             p4 == IF TruthyStr(error.code) THEN <<"code=" \o error.code[1]>> ELSE <<>>
             parts  == p1 \o p2 \o p3 \o p4
             joined == Join(parts, " | ")
         IN  IF joined # "" THEN joined ELSE StringOfError(error)

(***************************************************************************)
(* Write throttle                                                          *)
(***************************************************************************)
RateLimitMessage ==
    "Rate limit exceeded: maximum " \o ToString(RATE_LIMIT_MAX_WRITES)
      \o " write operations per " \o ToString(RATE_LIMIT_WINDOW_MS \div 1000)
      \o "s. Please wait before retrying."

\* checkRateLimit with the ceiling test written > instead of >=
checkRateLimit_OffByOne(rl, now) ==
    LET pruned == SelectSeq(rl.timestamps, LAMBDA ts : now - ts < RATE_LIMIT_WINDOW_MS)
    IN  IF Len(pruned) > RATE_LIMIT_MAX_WRITES
          THEN [rateLimiter |-> [timestamps |-> pruned],
                thrown |-> Some(ErrorObj("Error", Some(RateLimitMessage), None, None, None))]
          ELSE [rateLimiter |-> [timestamps |-> Append(pruned, now)],
                thrown |-> None]

\* checkRateLimit that keeps an entry exactly one window old
checkRateLimit_KeepsBoundary(rl, now) ==
    LET pruned == SelectSeq(rl.timestamps, LAMBDA ts : now - ts <= RATE_LIMIT_WINDOW_MS)
    IN  IF Len(pruned) >= RATE_LIMIT_MAX_WRITES
          THEN [rateLimiter |-> [timestamps |-> pruned],
                thrown |-> Some(ErrorObj("Error", Some(RateLimitMessage), None, None, None))]
          ELSE [rateLimiter |-> [timestamps |-> Append(pruned, now)],
                thrown |-> None]

\* checkRateLimit that records the attempt before the ceiling test
checkRateLimit_PushFirst(rl, now) ==
    LET pruned == SelectSeq(rl.timestamps, LAMBDA ts : now - ts < RATE_LIMIT_WINDOW_MS)
    IN  IF Len(Append(pruned, now)) >= RATE_LIMIT_MAX_WRITES
          THEN [rateLimiter |-> [timestamps |-> pruned],
                thrown |-> Some(ErrorObj("Error", Some(RateLimitMessage), None, None, None))]
          ELSE [rateLimiter |-> [timestamps |-> Append(pruned, now)],
                thrown |-> None]

\* checkRateLimit that stores the time of a rejected attempt as well
checkRateLimit_CountsRejected(rl, now) ==
    LET pruned == SelectSeq(rl.timestamps, LAMBDA ts : now - ts < RATE_LIMIT_WINDOW_MS)
    IN  IF Len(pruned) >= RATE_LIMIT_MAX_WRITES
          THEN [rateLimiter |-> [timestamps |-> Append(pruned, now)],
                thrown |-> Some(ErrorObj("Error", Some(RateLimitMessage), None, None, None))]
          ELSE [rateLimiter |-> [timestamps |-> Append(pruned, now)],
                thrown |-> None]

\* checkRateLimit() run at time now on throttle state rl: the new throttle
\* state and, when the call throws, the Error thrown
checkRateLimit(rl, now) ==
    LET pruned == SelectSeq(rl.timestamps, LAMBDA ts : now - ts < RATE_LIMIT_WINDOW_MS)
    IN  IF Len(pruned) >= RATE_LIMIT_MAX_WRITES
          THEN [rateLimiter |-> [timestamps |-> pruned],
                thrown |-> Some(ErrorObj("Error", Some(RateLimitMessage), None, None, None))]
          ELSE [rateLimiter |-> [timestamps |-> Append(pruned, now)],
                thrown |-> None]

VARIABLES
    phase,          \* position of the module's top-level code
    env,            \* process.env, as it is after dotenv.config
    consts,         \* top-level constants captured from process.env
    stderr,         \* lines written with console.error
    exitCode,       \* <<>> while the process lives, <<n>> after process.exit(n)
    registered,     \* tools registered on the server, in registration order
    clock,          \* Date.now()
    rateLimiter,    \* RateLimiterState
    call,           \* the tool invocation being handled
    net,            \* requests it sent upstream that are not yet answered
    suspended,      \* the other invocations awaiting the upstream: a bag of
                    \* their call and net
    firstAt,        \* history: clock value of the first write attempt
    attempts,       \* history: write attempts of the first minute (see NoteAttempt)
    recent,         \* history: admission times less than one window old
    rejected,       \* history: some write attempt was rejected by the throttle
    anyOk,          \* history: some write request was answered with success
    stopped,        \* history: entries whose stop request was answered with success
    fatal           \* history: <<e>> once main() has rejected with e

history == <<firstAt, attempts, recent, rejected, anyOk, stopped, fatal>>

vars == <<phase, env, consts, stderr, exitCode, registered, clock, rateLimiter,
          call, net, suspended, history>>

(***************************************************************************)
(* Startup: the module's top-level code                                    *)
(***************************************************************************)
DefaultUserAgent == "Harvest MCP Server"

MissingEnvDiagnostic ==
    "Error: HARVEST_ACCOUNT_ID and HARVEST_ACCESS_TOKEN must be set in environment or .env file"

RunningBanner == "Harvest MCP Server running on stdio"

\* a process environment
Env(account, token, agent) ==
    [HARVEST_ACCOUNT_ID |-> account, HARVEST_ACCESS_TOKEN |-> token,
     HARVEST_USER_AGENT |-> agent]

\* no invocation is being handled.  reqs, asked, served and caught are
\* history: the requests issued, the pages asked and served, and the failure
\* the catch block received
NoCall ==
    [pc |-> "idle", tool |-> "", args |-> <<>>, page |-> 0, allAssignments |-> <<>>,
     reqs |-> 0, asked |-> <<>>, served |-> <<>>, caught |-> <<>>, envelope |-> <<>>]

\* the state when the process starts with an environment drawn from envs
InitWith(envs) ==
    /\ phase = "load"
    /\ env \in envs
    /\ consts = [HARVEST_ACCOUNT_ID |-> None, HARVEST_ACCESS_TOKEN |-> None,
                 USER_AGENT |-> None]
    /\ stderr = <<>>
    /\ exitCode = None
    /\ registered = <<>>
    /\ clock = 0
    /\ rateLimiter = [timestamps |-> <<>>]
    /\ call = NoCall
    /\ net = {}
    /\ suspended = EmptyBag
    /\ firstAt = None
    /\ attempts = 0
    /\ recent = <<>>
    /\ rejected = FALSE
    /\ anyOk = FALSE
    /\ stopped = {}
    /\ fatal = <<>>

\* process.exit(code)
Exit(code) ==
    /\ exitCode' = Some(code)
    /\ phase' = "exited"

\* the top-level constants are read from process.env
LoadEnvironment ==
    /\ phase = "load"
    /\ consts' = [HARVEST_ACCOUNT_ID |-> env.HARVEST_ACCOUNT_ID,
                  HARVEST_ACCESS_TOKEN |-> env.HARVEST_ACCESS_TOKEN,
                  USER_AGENT |-> OrStr(env.HARVEST_USER_AGENT, Some(DefaultUserAgent))]
    /\ phase' = "validate"
    /\ UNCHANGED <<suspended, env, stderr, exitCode, registered, clock, rateLimiter,
                   call, net, history>>

\* the validation written with && : it fails only when both secrets are missing
ValidateEnvironment_BothMissing ==
    /\ phase = "validate"
    /\ IF ~TruthyStr(consts.HARVEST_ACCOUNT_ID) /\ ~TruthyStr(consts.HARVEST_ACCESS_TOKEN)
         THEN /\ stderr' = Append(stderr, MissingEnvDiagnostic)
              /\ Exit(1)
         ELSE /\ phase' = "register"
              /\ UNCHANGED <<stderr, exitCode>>
    /\ UNCHANGED <<suspended, env, consts, registered, clock, rateLimiter, call, net, history>>

\* if (!HARVEST_ACCOUNT_ID || !HARVEST_ACCESS_TOKEN) { console.error; process.exit(1) }
ValidateEnvironment ==
    /\ phase = "validate"
    /\ IF ~TruthyStr(consts.HARVEST_ACCOUNT_ID) \/ ~TruthyStr(consts.HARVEST_ACCESS_TOKEN)
         THEN /\ stderr' = Append(stderr, MissingEnvDiagnostic)
              /\ Exit(1)
         ELSE /\ phase' = "register"
              /\ UNCHANGED <<stderr, exitCode>>
    /\ UNCHANGED <<suspended, env, consts, registered, clock, rateLimiter, call, net, history>>

\* server.registerTool(...), one tool after the other in source order
RegisterTool ==
    /\ phase = "register"
    /\ registered' = Append(registered, Tools[Len(registered) + 1])
    /\ phase' = IF Len(registered') = Len(Tools) THEN "main" ELSE "register"
    /\ UNCHANGED <<suspended, env, consts, stderr, exitCode, clock, rateLimiter,
                   call, net, history>>

\* main(): the transport connects and the banner is written
MainConnected ==
    /\ phase = "main"
    /\ stderr' = Append(stderr, RunningBanner)
    /\ phase' = "running"
    /\ UNCHANGED <<suspended, env, consts, exitCode, registered, clock, rateLimiter,
                   call, net, history>>

\* main().catch: server.connect rejects with failure e
MainFailed(e) ==
    /\ phase = "main"
    /\ stderr' = Append(stderr, "Fatal error in main(): " \o sanitizeErrorForLogging(e))
    /\ Exit(1)
    /\ fatal' = <<e>>
    /\ UNCHANGED <<suspended, env, consts, registered, clock, rateLimiter, call, net,
                   firstAt, attempts, recent, rejected, anyOk, stopped>>

(***************************************************************************)
(* Environment of the process                                              *)
(***************************************************************************)
\* time passes
Tick(d) ==
    /\ phase = "running"
    /\ clock + d <= MaxClock
    /\ clock' = clock + d
    /\ recent' = SelectSeq(recent, LAMBDA t : clock' - t < RATE_LIMIT_WINDOW_MS)
    /\ UNCHANGED <<suspended, phase, env, consts, stderr, exitCode, registered, rateLimiter,
                   call, net, firstAt, attempts, rejected, anyOk, stopped, fatal>>

\* midnight UTC passes: the clock reaches the start of the next day
NextDay ==
    /\ phase = "running"
    /\ clock \div 86400000 < MaxDays
    /\ clock' = (clock \div 86400000 + 1) * 86400000
    /\ recent' = SelectSeq(recent, LAMBDA t : clock' - t < RATE_LIMIT_WINDOW_MS)
    /\ UNCHANGED <<suspended, phase, env, consts, stderr, exitCode, registered, rateLimiter,
                   call, net, firstAt, attempts, rejected, anyOk, stopped, fatal>>

\* the access token in process.env is replaced
RotateToken(token) ==
    /\ phase = "running"
    /\ env.HARVEST_ACCESS_TOKEN # token
    /\ env' = [env EXCEPT !.HARVEST_ACCESS_TOKEN = token]
    /\ UNCHANGED <<suspended, phase, consts, stderr, exitCode, registered, clock, rateLimiter,
                   call, net, history>>

\* the host delivers a further message while the handler in call awaits the
\* upstream: that handler stays suspended at its await
Suspend ==
    /\ phase = "running"
    /\ call.pc = "awaiting"
    /\ BagCardinality(suspended) < MaxSuspended
    /\ suspended' = suspended (+) SetToBag({[call |-> call, net |-> net]})
    /\ call' = NoCall
    /\ net' = {}
    /\ UNCHANGED <<phase, env, consts, stderr, exitCode, registered, clock,
                   rateLimiter, history>>

\* the event loop turns to the suspended handler x, whose answer is arriving
Resume(x) ==
    /\ phase = "running"
    /\ call.pc # "awaiting"
    /\ BagIn(x, suspended)
    /\ suspended' = suspended (-) SetToBag({x})
    /\ call' = x.call
    /\ net' = x.net
    /\ UNCHANGED <<phase, env, consts, stderr, exitCode, registered, clock,
                   rateLimiter, history>>

(***************************************************************************)
(* Upstream client                                                         *)
(***************************************************************************)
\* an interceptor that uses the constants captured when the module was loaded
Interceptor_Captured(config, e) ==
    [config EXCEPT !.headers =
        ("Authorization" :> Some("Bearer " \o StrOf(consts.HARVEST_ACCESS_TOKEN)))
        @@ ("Harvest-Account-Id" :> consts.HARVEST_ACCOUNT_ID)
        @@ ("User-Agent" :> consts.USER_AGENT)
        @@ config.headers]

\* the request interceptor: credentials are read from process.env e
Interceptor(config, e) ==
    [config EXCEPT !.headers =
        ("Authorization" :> Some("Bearer " \o StrOf(e.HARVEST_ACCESS_TOKEN)))
        @@ ("Harvest-Account-Id" :> e.HARVEST_ACCOUNT_ID)
        @@ ("User-Agent" :> OrStr(e.HARVEST_USER_AGENT, Some(DefaultUserAgent)))
        @@ config.headers]

\* harvestClient.<method>(url, ...) as it leaves the client
Request(method, url, params, data, e) ==
    Interceptor([baseURL |-> HARVEST_API_BASE, method |-> method, url |-> url,
                 params |-> params, data |-> data,
                 headers |-> ("Content-Type" :> Some("application/json"))], e)

\* what the upstream does with a request: it answers 2xx with a body, or the
\* awaited call rejects with a failure object
Ok(data) == [kind |-> "response", data |-> data, error |-> <<>>]

Fail(error) == [kind |-> "error", data |-> <<>>, error |-> <<error>>]

\* the AxiosError for a non-2xx answer to req
HttpFailure(req, status, data) ==
    ErrorObj("AxiosError",
             Some("Request failed with status code " \o ToString(status)),
             Some(IF status >= 500 THEN "ERR_BAD_RESPONSE" ELSE "ERR_BAD_REQUEST"),
             Some(Response(Some(status), data)), Some(req))

\* the AxiosError for a request that got no answer
NetworkFailure(req) ==
    ErrorObj("AxiosError", Some("Network Error"), Some("ERR_NETWORK"), None, Some(req))

\* the TypeError of reading property prop of undefined
TypeErr(prop) ==
    ErrorObj("TypeError",
             Some("Cannot read properties of undefined (reading '" \o prop \o "')"),
             None, None, None)

(***************************************************************************)
(* Response envelopes                                                      *)
(***************************************************************************)
Envelope(text) == [content |-> <<[type |-> "text", text |-> text]>>]

ErrorEnvelope(text) ==
    [content |-> <<[type |-> "text", text |-> text]>>, isError |-> TRUE]

IsErrorEnvelope(e) == "isError" \in DOMAIN e /\ e.isError = TRUE

\* the text of the catch block of each handler
CatchPrefix(tool) ==
    CASE tool = "list_projects"      -> "Error fetching projects: "
      [] tool = "list_project_tasks" -> "Error fetching tasks: "
      [] tool = "log_time"           -> "Error logging time: "
      [] tool = "get_todays_time"    -> "Error fetching today's time: "
      [] tool = "start_timer"        -> "Error starting timer: "
      [] tool = "stop_timer"         -> "Error stopping timer: "
      [] tool = "update_time_entry"  -> "Error updating time entry: "

\* a catch block that returns its text without the error flag
Caught_Unflagged(tool, error) == Envelope(CatchPrefix(tool) \o formatHarvestError(error))

\* catch (error) { return { content: [...formatHarvestError(error)], isError: true } }
Caught(tool, error) == ErrorEnvelope(CatchPrefix(tool) \o formatHarvestError(error))

\* the value of a handler's try block: a text, or an exception
Returns(text) == [thrown |-> <<>>, text |-> text]

Throws(error) == [thrown |-> <<error>>, text |-> ""]

\* the envelope a handler returns for the outcome r of its try block
Settle(tool, r) ==
    IF r.thrown # <<>> THEN Caught(tool, r.thrown[1]) ELSE Envelope(r.text)

NumStrOf(o) == IF o = <<>> THEN "undefined" ELSE NumStr(o[1])

IntStrOf(o) == IF o = <<>> THEN "undefined" ELSE ToString(o[1])

NotesOf(entry) == StrOf(OrStr(entry.notes, Some("No notes")))

\* the success texts of the four write handlers, from response.data
LogTimeText(data) ==
    IF data = <<>> THEN Throws(TypeErr("hours"))
    ELSE LET entry == data[1]
         IN  IF entry.project = <<>> \/ entry.task = <<>> THEN Throws(TypeErr("name"))
             ELSE Returns("Successfully logged " \o NumStrOf(entry.hours) \o " hours to "
                            \o StrOf(entry.project[1].name) \o " - "
                            \o StrOf(entry.task[1].name) \o "\n"
                            \o "Date: " \o StrOf(entry.spent_date) \o "\n"
                            \o "Notes: " \o NotesOf(entry) \o "\n"
                            \o "Entry ID: " \o IntStrOf(entry.id))

StartTimerText(data) ==
    IF data = <<>> THEN Throws(TypeErr("project"))
    ELSE LET entry == data[1]
         IN  IF entry.project = <<>> \/ entry.task = <<>> THEN Throws(TypeErr("name"))
             ELSE Returns("Timer started for " \o StrOf(entry.project[1].name) \o " - "
                            \o StrOf(entry.task[1].name) \o "\n"
                            \o "Entry ID: " \o IntStrOf(entry.id) \o "\n"
                            \o "Notes: " \o NotesOf(entry))

StopTimerText(data) ==
    IF data = <<>> THEN Throws(TypeErr("hours"))
    ELSE LET entry == data[1]
         IN  IF entry.project = <<>> \/ entry.task = <<>> THEN Throws(TypeErr("name"))
             ELSE Returns("Timer stopped. Logged " \o NumStrOf(entry.hours) \o " hours to "
                            \o StrOf(entry.project[1].name) \o " - "
                            \o StrOf(entry.task[1].name))

UpdateTimeEntryText(data) ==
    IF data = <<>> THEN Throws(TypeErr("id"))
    ELSE LET entry == data[1]
         IN  IF entry.project = <<>> \/ entry.task = <<>> THEN Throws(TypeErr("name"))
             ELSE Returns("Successfully updated time entry " \o IntStrOf(entry.id) \o "\n"
                            \o "Project: " \o StrOf(entry.project[1].name) \o "\n"
                            \o "Task: " \o StrOf(entry.task[1].name) \o "\n"
                            \o "Hours: " \o NumStrOf(entry.hours) \o "\n"
                            \o "Date: " \o StrOf(entry.spent_date) \o "\n"
                            \o "Notes: " \o NotesOf(entry))

(***************************************************************************)
(* Tool handlers: the four write tools                                     *)
(***************************************************************************)
\* the host may deliver an invocation of a registered tool
CanInvoke(tool) ==
    /\ phase = "running"
    /\ call.pc # "awaiting"
    /\ \E i \in 1..Len(registered) : registered[i] = tool

\* history of a write attempt.  attempts counts the attempts made while less
\* than one window has passed since the first one, up to one above the
\* ceiling; any later attempt sets it two above the ceiling
NoteAttempt(admitted) ==
    /\ firstAt' = IF firstAt = None THEN Some(clock) ELSE firstAt
    /\ attempts' = IF firstAt # None /\ clock - firstAt[1] >= RATE_LIMIT_WINDOW_MS
                      THEN RATE_LIMIT_MAX_WRITES + 2
                    ELSE IF attempts > RATE_LIMIT_MAX_WRITES
                      THEN RATE_LIMIT_MAX_WRITES + 2
                    ELSE attempts + 1
    /\ recent' = IF admitted THEN Append(recent, clock) ELSE recent
    /\ rejected' = (rejected \/ ~admitted)
    /\ anyOk' = anyOk
    /\ stopped' = stopped
    /\ fatal' = fatal

\* a write handler whose timestamp array is a copy read before the handlers
\* now suspended stored theirs: its append overwrites the last of them
BeginWrite_LostUpdate(tool, args, req) ==
    LET r     == checkRateLimit(rateLimiter, clock)
        ts    == r.rateLimiter.timestamps
        stale == suspended # EmptyBag /\ r.thrown = None /\ Len(ts) >= 2
    IN  /\ rateLimiter' = IF stale
                            THEN [timestamps |-> Append(SubSeq(ts, 1, Len(ts) - 2), clock)]
                            ELSE r.rateLimiter
        /\ NoteAttempt(r.thrown = None)
        /\ IF r.thrown # None
             THEN /\ call' = [NoCall EXCEPT !.pc = "done", !.tool = tool, !.args = args,
                                            !.caught = r.thrown,
                                            !.envelope = Caught(tool, r.thrown[1])]
                  /\ net' = net
             ELSE /\ call' = [NoCall EXCEPT !.pc = "awaiting", !.tool = tool,
                                            !.args = args, !.reqs = 1]
                  /\ net' = net \cup {req}
        /\ UNCHANGED <<suspended, phase, env, consts, stderr, exitCode, registered, clock>>

\* a write handler whose request is built and sent before checkRateLimit()
BeginWrite_SendFirst(tool, args, req) ==
    LET r == checkRateLimit(rateLimiter, clock)
    IN  /\ rateLimiter' = r.rateLimiter
        /\ NoteAttempt(r.thrown = None)
        /\ IF r.thrown # None
             THEN call' = [NoCall EXCEPT !.pc = "done", !.tool = tool, !.args = args,
                                         !.reqs = 1, !.caught = r.thrown,
                                         !.envelope = Caught(tool, r.thrown[1])]
             ELSE call' = [NoCall EXCEPT !.pc = "awaiting", !.tool = tool,
                                         !.args = args, !.reqs = 1]
        /\ net' = net \cup {req}
        /\ UNCHANGED <<suspended, phase, env, consts, stderr, exitCode, registered, clock>>

\* a write handler up to its first await: checkRateLimit(), then the request
\* req is sent; when checkRateLimit throws, the catch block returns at once
BeginWrite(tool, args, req) ==
    LET r == checkRateLimit(rateLimiter, clock)
    IN  /\ rateLimiter' = r.rateLimiter
        /\ NoteAttempt(r.thrown = None)
        /\ IF r.thrown # None
             THEN /\ call' = [NoCall EXCEPT !.pc = "done", !.tool = tool, !.args = args,
                                            !.caught = r.thrown,
                                            !.envelope = Caught(tool, r.thrown[1])]
                  /\ net' = net
             ELSE /\ call' = [NoCall EXCEPT !.pc = "awaiting", !.tool = tool,
                                            !.args = args, !.reqs = 1]
                  /\ net' = net \cup {req}
        /\ UNCHANGED <<suspended, phase, env, consts, stderr, exitCode, registered, clock>>

\* a write handler that gives its throttle slot back when the upstream fails
EndWrite_Refund(tool, req, o, text) ==
    /\ call.pc = "awaiting"
    /\ call.tool = tool
    /\ req \in net
    /\ net' = net \ {req}
    /\ call' = [call EXCEPT !.pc = "done",
                            !.caught = IF o.kind = "error" THEN o.error ELSE text.thrown,
                            !.envelope = IF o.kind = "error"
                                           THEN Caught(tool, o.error[1])
                                           ELSE Settle(tool, text)]
    /\ rateLimiter' = IF o.kind = "error" /\ rateLimiter.timestamps # <<>>
                        THEN [timestamps |-> SubSeq(rateLimiter.timestamps, 1,
                                                    Len(rateLimiter.timestamps) - 1)]
                        ELSE rateLimiter
    /\ anyOk' = (anyOk \/ o.kind = "response")
    /\ stopped' = IF tool = "stop_timer" /\ o.kind = "response"
                    THEN stopped \cup {call.args.time_entry_id} ELSE stopped
    /\ UNCHANGED <<suspended, phase, env, consts, stderr, exitCode, registered, clock,
                   firstAt, attempts, recent, rejected, fatal>>

\* a write handler that sends its request a second time when the first fails
EndWrite_Retry(tool, req, o, text) ==
    /\ call.pc = "awaiting"
    /\ call.tool = tool
    /\ req \in net
    /\ IF o.kind = "error" /\ call.reqs < 2
         THEN /\ net' = net
              /\ call' = [call EXCEPT !.reqs = @ + 1]
         ELSE /\ net' = net \ {req}
              /\ call' = [call EXCEPT !.pc = "done",
                              !.caught = IF o.kind = "error" THEN o.error ELSE text.thrown,
                              !.envelope = IF o.kind = "error"
                                             THEN Caught(tool, o.error[1])
                                             ELSE Settle(tool, text)]
    /\ anyOk' = (anyOk \/ o.kind = "response")
    /\ stopped' = IF tool = "stop_timer" /\ o.kind = "response"
                    THEN stopped \cup {call.args.time_entry_id} ELSE stopped
    /\ UNCHANGED <<suspended, phase, env, consts, stderr, exitCode, registered, clock,
                   rateLimiter, firstAt, attempts, recent, rejected, fatal>>

\* a write handler without a catch block: the failure reaches the top level,
\* is logged and ends the process
EndWrite_Fatal(tool, req, o, text) ==
    /\ call.pc = "awaiting"
    /\ call.tool = tool
    /\ req \in net
    /\ net' = net \ {req}
    /\ call' = [call EXCEPT !.pc = "done",
                            !.caught = IF o.kind = "error" THEN o.error ELSE text.thrown,
                            !.envelope = IF o.kind = "error"
                                           THEN Caught(tool, o.error[1])
                                           ELSE Settle(tool, text)]
    /\ IF o.kind = "error"
         THEN /\ stderr' = Append(stderr, "Fatal error in main(): "
                                            \o sanitizeErrorForLogging(o.error))
              /\ Exit(1)
         ELSE UNCHANGED <<phase, stderr, exitCode>>
    /\ anyOk' = (anyOk \/ o.kind = "response")
    /\ stopped' = IF tool = "stop_timer" /\ o.kind = "response"
                    THEN stopped \cup {call.args.time_entry_id} ELSE stopped
    /\ UNCHANGED <<suspended, env, consts, registered, clock,
                   rateLimiter, firstAt, attempts, recent, rejected, fatal>>

\* a write handler from its await to its return, the upstream having answered
\* request req with outcome o
EndWrite(tool, req, o, text) ==
    /\ call.pc = "awaiting"
    /\ call.tool = tool
    /\ req \in net
    /\ net' = net \ {req}
    /\ call' = [call EXCEPT !.pc = "done",
                            !.caught = IF o.kind = "error" THEN o.error ELSE text.thrown,
                            !.envelope = IF o.kind = "error"
                                           THEN Caught(tool, o.error[1])
                                           ELSE Settle(tool, text)]
    /\ anyOk' = (anyOk \/ o.kind = "response")
    /\ stopped' = IF tool = "stop_timer" /\ o.kind = "response"
                    THEN stopped \cup {call.args.time_entry_id} ELSE stopped
    /\ UNCHANGED <<suspended, phase, env, consts, stderr, exitCode, registered, clock,
                   rateLimiter, firstAt, attempts, recent, rejected, fatal>>

\* log_time dating every entry today, whatever date was supplied
log_time_AlwaysToday(args) ==
    /\ CanInvoke("log_time")
    /\ BeginWrite("log_time", args,
          Request("post", "/time_entries", None,
                  Some([project_id |-> args.project_id, task_id |-> args.task_id,
                        spent_date |-> formatDate(clock), hours |-> args.hours,
                        notes |-> OrStr(args.notes, Some(""))[1]]), env))

log_time(args) ==
    /\ CanInvoke("log_time")
    /\ LET dateToLog == OrStr(args.spent_date, Some(formatDate(clock)))
       IN  BeginWrite("log_time", args,
              Request("post", "/time_entries", None,
                      Some([project_id |-> args.project_id, task_id |-> args.task_id,
                            spent_date |-> dateToLog[1], hours |-> args.hours,
                            notes |-> OrStr(args.notes, Some(""))[1]]), env))

log_time_resume(req, o) == EndWrite("log_time", req, o, LogTimeText(o.data))

start_timer(args) ==
    /\ CanInvoke("start_timer")
    /\ BeginWrite("start_timer", args,
          Request("post", "/time_entries", None,
                  Some([project_id |-> args.project_id, task_id |-> args.task_id,
                        spent_date |-> formatDate(clock),
                        notes |-> OrStr(args.notes, Some(""))[1]]), env))

start_timer_resume(req, o) == EndWrite("start_timer", req, o, StartTimerText(o.data))

\* stop_timer answering by itself for an entry it has seen stopped
stop_timer_ShortCircuit(args) ==
    /\ CanInvoke("stop_timer")
    /\ IF args.time_entry_id \in stopped
         THEN /\ call' = [NoCall EXCEPT !.pc = "done", !.tool = "stop_timer",
                                        !.args = args,
                                        !.envelope = ErrorEnvelope("Timer already stopped")]
              /\ UNCHANGED <<suspended, phase, env, consts, stderr, exitCode, registered, clock,
                             rateLimiter, net, history>>
         ELSE BeginWrite("stop_timer", args,
                 Request("patch", "/time_entries/" \o ToString(args.time_entry_id) \o "/stop",
                         None, None, env))

stop_timer(args) ==
    /\ CanInvoke("stop_timer")
    /\ BeginWrite("stop_timer", args,
          Request("patch", "/time_entries/" \o ToString(args.time_entry_id) \o "/stop",
                  None, None, env))

stop_timer_resume(req, o) == EndWrite("stop_timer", req, o, StopTimerText(o.data))

\* the payload built with truthiness tests: a supplied 0 or "" is left out
UpdateData_Truthy(args) ==
    LET Truthy(name) == IF name \in {"spent_date", "notes"} THEN TruthyStr(args[name])
                        ELSE TruthyNum(args[name])
        Field(name) == IF Truthy(name) THEN name :> args[name][1] ELSE <<>>
    IN  Field("project_id") @@ Field("task_id") @@ Field("spent_date")
          @@ Field("hours") @@ Field("notes")

\* the update payload holds only the supplied fields
UpdateData(args) ==
    LET Field(name) == IF args[name] # <<>> THEN name :> args[name][1] ELSE <<>>
    IN  Field("project_id") @@ Field("task_id") @@ Field("spent_date")
          @@ Field("hours") @@ Field("notes")

\* update_time_entry refusing an empty patch before the throttle
update_time_entry_RejectEmpty(args) ==
    /\ CanInvoke("update_time_entry")
    /\ IF DOMAIN UpdateData(args) = {}
         THEN /\ call' = [NoCall EXCEPT !.pc = "done", !.tool = "update_time_entry",
                                        !.args = args,
                                        !.envelope = ErrorEnvelope("No fields to update")]
              /\ UNCHANGED <<suspended, phase, env, consts, stderr, exitCode, registered, clock,
                             rateLimiter, net, history>>
         ELSE BeginWrite("update_time_entry", args,
                 Request("patch", "/time_entries/" \o ToString(args.time_entry_id),
                         None, Some(UpdateData(args)), env))

update_time_entry(args) ==
    /\ CanInvoke("update_time_entry")
    /\ BeginWrite("update_time_entry", args,
          Request("patch", "/time_entries/" \o ToString(args.time_entry_id),
                  None, Some(UpdateData(args)), env))

update_time_entry_resume(req, o) ==
    EndWrite("update_time_entry", req, o, UpdateTimeEntryText(o.data))

(***************************************************************************)
(* JSON.stringify(value, null, 2) of an array of flat objects              *)
(***************************************************************************)
JsonString(str) == "\"" \o str \o "\""

JsonBool(b) == IF b THEN "true" ELSE "false"

\* a member "key": value; an undefined value leaves the member out
Member(key, o, rendered) == IF o = <<>> THEN <<>> ELSE <<<<key, rendered>>>>

JsonObject(members) ==
    IF members = <<>> THEN "  {}"
    ELSE "  {\n"
           \o Join([i \in 1..Len(members) |->
                      "    \"" \o members[i][1] \o "\": " \o members[i][2]], ",\n")
           \o "\n  }"

JsonArray(objects) ==
    IF objects = <<>> THEN "[]" ELSE "[\n" \o Join(objects, ",\n") \o "\n]"

(***************************************************************************)
(* Pagination aggregator                                                   *)
(***************************************************************************)
AssignmentsUrl == "/users/me/project_assignments"

\* harvestClient.get("/users/me/project_assignments", { params: { per_page, page } })
PageRequest(page, e) ==
    Request("get", AssignmentsUrl, Some([per_page |-> perPage, page |-> page]), None, e)

\* the loop keeping only the page just received
getMyProjectAssignments_Overwrite(allAssignments, page, data) ==
    LET assignments == IF data.project_assignments = <<>> THEN <<>>
                       ELSE data.project_assignments[1]
    IN  [allAssignments |-> assignments,
         page |-> IF TruthyNum(data.next_page) THEN data.next_page ELSE <<>>]

\* the loop counting pages itself instead of reading next_page
getMyProjectAssignments_Increment(allAssignments, page, data) ==
    LET assignments == IF data.project_assignments = <<>> THEN <<>>
                       ELSE data.project_assignments[1]
    IN  [allAssignments |-> allAssignments \o assignments,
         page |-> IF TruthyNum(data.next_page) THEN <<page + 1>> ELSE <<>>]

\* the loop asking the same page again when the answer names no next page
getMyProjectAssignments_NeverBreaks(allAssignments, page, data) ==
    LET assignments == IF data.project_assignments = <<>> THEN <<>>
                       ELSE data.project_assignments[1]
    IN  [allAssignments |-> allAssignments \o assignments,
         page |-> IF TruthyNum(data.next_page) THEN data.next_page ELSE <<page>>]

\* one turn of the loop of getMyProjectAssignments on the body data of the
\* page just received, page being the number that was asked: the accumulated
\* list and the page to ask next, if any
getMyProjectAssignments(allAssignments, page, data) ==
    LET assignments == IF data.project_assignments = <<>> THEN <<>>
                       ELSE data.project_assignments[1]
    IN  [allAssignments |-> allAssignments \o assignments,
         page |-> IF TruthyNum(data.next_page) THEN data.next_page ELSE <<>>]

(***************************************************************************)
(* Tool handlers: the three read tools                                     *)
(***************************************************************************)
\* pa.project?.id and the like
ProjectField(pa, f) == IF pa.project = <<>> THEN <<>> ELSE pa.project[1][f]

ClientName(pa) == IF pa.client = <<>> THEN <<>> ELSE pa.client[1].name

TaskField(ta, f) == IF ta.task = <<>> THEN <<>> ELSE ta.task[1][f]

\* the mapping without the filter on is_active
Projects_KeepsInactive(projectAssignments) ==
    LET active == projectAssignments
        mapped == [i \in 1..Len(active) |->
                     [id |-> ProjectField(active[i], "id"),
                      name |-> ProjectField(active[i], "name"),
                      code |-> ProjectField(active[i], "code"),
                      client |-> OrStr(ClientName(active[i]), Some("No client"))[1],
                      is_billable |-> "null",
                      budget |-> active[i].budget]]
    IN  SelectSeq(mapped, LAMBDA p : p.id # <<>> /\ p.name # <<>>)

\* the projects list_projects reports for the aggregated assignments
Projects(projectAssignments) ==
    LET active == SelectSeq(projectAssignments, LAMBDA pa : pa.is_active)
        mapped == [i \in 1..Len(active) |->
                     [id |-> ProjectField(active[i], "id"),
                      name |-> ProjectField(active[i], "name"),
                      code |-> ProjectField(active[i], "code"),
                      client |-> OrStr(ClientName(active[i]), Some("No client"))[1],
                      is_billable |-> "null",
                      budget |-> active[i].budget]]
    IN  SelectSeq(mapped, LAMBDA p : p.id # <<>> /\ p.name # <<>>)

JsonProject(p) ==
    JsonObject(<<<<"id", ToString(p.id[1])>>, <<"name", JsonString(p.name[1])>>>>
               \o Member("code", p.code, JsonString(StrOf(p.code)))
               \o <<<<"client", JsonString(p.client)>>, <<"is_billable", "null">>,
                    <<"budget", IF p.budget = <<>> THEN "null" ELSE NumStr(p.budget[1])>>>>)

ListProjectsText(projectAssignments) ==
    LET projects == Projects(projectAssignments)
    IN  Returns(JsonArray([i \in 1..Len(projects) |-> JsonProject(projects[i])]))

\* a find that looks at the first assignment only
FindAssignment_FirstOnly(projectAssignments, project_id) ==
    IF projectAssignments # <<>>
         /\ ProjectField(projectAssignments[1], "id") = Some(project_id)
      THEN <<projectAssignments[1]>>
      ELSE <<>>

\* projectAssignments.find(pa => pa.project?.id === project_id)
FindAssignment(projectAssignments, project_id) ==
    LET hits == SelectSeq(projectAssignments,
                          LAMBDA pa : ProjectField(pa, "id") = Some(project_id))
    IN  IF hits = <<>> THEN <<>> ELSE <<hits[1]>>

\* the tasks list_project_tasks reports for an assignment
Tasks(assignment) ==
    LET all    == IF assignment.task_assignments = <<>> THEN <<>>
                  ELSE assignment.task_assignments[1]
        active == SelectSeq(all, LAMBDA ta : ta.is_active)
        mapped == [i \in 1..Len(active) |->
                     [id |-> TaskField(active[i], "id"),
                      name |-> TaskField(active[i], "name"),
                      is_active |-> active[i].is_active,
                      billable |-> active[i].billable,
                      hourly_rate |-> active[i].hourly_rate]]
    IN  SelectSeq(mapped, LAMBDA t : t.id # <<>> /\ t.name # <<>>)

JsonTask(t) ==
    JsonObject(<<<<"id", ToString(t.id[1])>>, <<"name", JsonString(t.name[1])>>,
                 <<"is_active", JsonBool(t.is_active)>>>>
               \o Member("billable", t.billable,
                         IF t.billable = <<>> THEN "" ELSE JsonBool(t.billable[1]))
               \o Member("hourly_rate", t.hourly_rate, NumStrOf(t.hourly_rate)))

NoAssignmentText(project_id) ==
    "No project assignment found for project_id " \o ToString(project_id)
      \o ". If this project exists but isn't listed, you may not be assigned to it in Harvest."

\* list_project_tasks answering an unmatched project with an empty task list
ListProjectTasksEnvelope_EmptyList(projectAssignments, project_id) ==
    LET assignment == FindAssignment(projectAssignments, project_id)
        tasks == IF assignment = <<>> THEN <<>> ELSE Tasks(assignment[1])
    IN  Envelope(JsonArray([i \in 1..Len(tasks) |-> JsonTask(tasks[i])]))

\* the envelope list_project_tasks returns once the assignments are aggregated
ListProjectTasksEnvelope(projectAssignments, project_id) ==
    LET assignment == FindAssignment(projectAssignments, project_id)
    IN  IF assignment = <<>> THEN ErrorEnvelope(NoAssignmentText(project_id))
        ELSE LET tasks == Tasks(assignment[1])
             IN  Envelope(JsonArray([i \in 1..Len(tasks) |-> JsonTask(tasks[i])]))

\* a listing handler that passes through checkRateLimit() like a write
BeginListing_Throttled(tool, args) ==
    LET r == checkRateLimit(rateLimiter, clock)
    IN  /\ CanInvoke(tool)
        /\ rateLimiter' = r.rateLimiter
        /\ IF r.thrown # None
             THEN /\ call' = [NoCall EXCEPT !.pc = "done", !.tool = tool, !.args = args,
                                            !.caught = r.thrown,
                                            !.envelope = Caught(tool, r.thrown[1])]
                  /\ net' = net
             ELSE /\ call' = [NoCall EXCEPT !.pc = "awaiting", !.tool = tool,
                                            !.args = args, !.page = 1, !.reqs = 1,
                                            !.asked = <<1>>]
                  /\ net' = net \cup {PageRequest(1, env)}
        /\ UNCHANGED <<suspended, phase, env, consts, stderr, exitCode, registered, clock, history>>

\* a listing handler up to its first await: page 1 is requested
BeginListing(tool, args) ==
    /\ CanInvoke(tool)
    /\ call' = [NoCall EXCEPT !.pc = "awaiting", !.tool = tool, !.args = args,
                              !.page = 1, !.reqs = 1, !.asked = <<1>>]
    /\ net' = net \cup {PageRequest(1, env)}
    /\ UNCHANGED <<suspended, phase, env, consts, stderr, exitCode, registered, clock,
                   rateLimiter, history>>

list_projects == BeginListing("list_projects", <<>>)

list_project_tasks(args) == BeginListing("list_project_tasks", args)

\* a listing handler that answers with the pages it has when a page request
\* fails
listing_resume_Partial(req, o) ==
    /\ call.pc = "awaiting"
    /\ call.tool \in {"list_projects", "list_project_tasks"}
    /\ req \in net
    /\ IF o.kind = "error"
         THEN /\ call' = [call EXCEPT
                            !.pc = "done",
                            !.envelope =
                               IF call.tool = "list_projects"
                                 THEN Settle(call.tool, ListProjectsText(call.allAssignments))
                                 ELSE ListProjectTasksEnvelope(call.allAssignments,
                                                               call.args.project_id)]
              /\ net' = net \ {req}
         ELSE IF o.data = <<>>
         THEN /\ call' = [call EXCEPT !.pc = "done",
                            !.served = Append(@, o.data),
                            !.caught = <<TypeErr("project_assignments")>>,
                            !.envelope = Caught(call.tool, TypeErr("project_assignments"))]
              /\ net' = net \ {req}
         ELSE LET turn == getMyProjectAssignments(call.allAssignments, call.page, o.data[1])
              IN  IF turn.page # <<>>
                    THEN /\ call.reqs < MaxPageRequests
                         /\ call' = [call EXCEPT !.allAssignments = turn.allAssignments,
                                                 !.page = turn.page[1],
                                                 !.reqs = @ + 1,
                                                 !.asked = Append(@, turn.page[1]),
                                                 !.served = Append(@, o.data)]
                         /\ net' = (net \ {req}) \cup {PageRequest(turn.page[1], env)}
                    ELSE /\ call' = [call EXCEPT
                               !.pc = "done",
                               !.allAssignments = turn.allAssignments,
                               !.served = Append(@, o.data),
                               !.envelope =
                                  IF call.tool = "list_projects"
                                    THEN Settle(call.tool, ListProjectsText(turn.allAssignments))
                                    ELSE ListProjectTasksEnvelope(turn.allAssignments,
                                                                  call.args.project_id)]
                         /\ net' = net \ {req}
    /\ UNCHANGED <<suspended, phase, env, consts, stderr, exitCode, registered, clock,
                   rateLimiter, history>>

\* a listing handler resumes inside getMyProjectAssignments: the upstream has
\* answered the page request req with outcome o; the loop either asks for the
\* next page or returns, and then the handler maps the list and returns
listing_resume(req, o) ==
    /\ call.pc = "awaiting"
    /\ call.tool \in {"list_projects", "list_project_tasks"}
    /\ req \in net
    /\ IF o.kind = "error"
         THEN /\ call' = [call EXCEPT !.pc = "done",
                                      !.caught = o.error,
                                      !.envelope = Caught(call.tool, o.error[1])]
              /\ net' = net \ {req}
         ELSE IF o.data = <<>>
         THEN /\ call' = [call EXCEPT !.pc = "done",
                            !.served = Append(@, o.data),
                            !.caught = <<TypeErr("project_assignments")>>,
                            !.envelope = Caught(call.tool, TypeErr("project_assignments"))]
              /\ net' = net \ {req}
         ELSE LET turn == getMyProjectAssignments(call.allAssignments, call.page, o.data[1])
              IN  IF turn.page # <<>>
                    THEN /\ call.reqs < MaxPageRequests
                         /\ call' = [call EXCEPT !.allAssignments = turn.allAssignments,
                                                 !.page = turn.page[1],
                                                 !.reqs = @ + 1,
                                                 !.asked = Append(@, turn.page[1]),
                                                 !.served = Append(@, o.data)]
                         /\ net' = (net \ {req}) \cup {PageRequest(turn.page[1], env)}
                    ELSE /\ call' = [call EXCEPT
                               !.pc = "done",
                               !.allAssignments = turn.allAssignments,
                               !.served = Append(@, o.data),
                               !.envelope =
                                  IF call.tool = "list_projects"
                                    THEN Settle(call.tool, ListProjectsText(turn.allAssignments))
                                    ELSE ListProjectTasksEnvelope(turn.allAssignments,
                                                                  call.args.project_id)]
                         /\ net' = net \ {req}
    /\ UNCHANGED <<suspended, phase, env, consts, stderr, exitCode, registered, clock,
                   rateLimiter, history>>

\* toFixed(2) of a number kept in hundredths
ToFixed2(h) ==
    ToString(h \div 100) \o "." \o (IF h % 100 < 10 THEN "0" ELSE "") \o ToString(h % 100)

RECURSIVE SumHours(_)
\* entries.reduce((sum, e) => sum + e.hours, 0)
SumHours(entries) ==
    IF entries = <<>> THEN 0 ELSE entries[1].hours[1] + SumHours(Tail(entries))

JsonEntry(e) ==
    JsonObject(Member("id", e.id, IntStrOf(e.id))
               \o Member("project", e.project[1].name, JsonString(StrOf(e.project[1].name)))
               \o Member("task", e.task[1].name, JsonString(StrOf(e.task[1].name)))
               \o Member("hours", e.hours, NumStrOf(e.hours))
               \o Member("notes", e.notes, JsonString(StrOf(e.notes)))
               \o Member("is_running", e.is_running,
                         IF e.is_running = <<>> THEN "" ELSE JsonBool(e.is_running[1])))

\* the summary written with the total as it prints, without toFixed(2)
TodaysTimeText_NoToFixed(data) ==
    IF data = <<>> THEN Throws(TypeErr("time_entries"))
    ELSE IF data[1].time_entries = <<>> THEN Throws(TypeErr("map"))
    ELSE LET entries == data[1].time_entries[1]
         IN  IF \E i \in 1..Len(entries) : entries[i].project = <<>> \/ entries[i].task = <<>>
               THEN Throws(TypeErr("name"))
               ELSE Returns("Today's time entries (" \o ToString(Len(entries)) \o " total, "
                              \o NumStr(SumHours(entries)) \o " hours):\n\n"
                              \o JsonArray([i \in 1..Len(entries) |-> JsonEntry(entries[i])]))

\* the success text of get_todays_time, from response.data
TodaysTimeText(data) ==
    IF data = <<>> THEN Throws(TypeErr("time_entries"))
    ELSE IF data[1].time_entries = <<>> THEN Throws(TypeErr("map"))
    ELSE LET entries == data[1].time_entries[1]
         IN  IF \E i \in 1..Len(entries) : entries[i].project = <<>> \/ entries[i].task = <<>>
               THEN Throws(TypeErr("name"))
               ELSE Returns("Today's time entries (" \o ToString(Len(entries)) \o " total, "
                              \o ToFixed2(SumHours(entries)) \o " hours):\n\n"
                              \o JsonArray([i \in 1..Len(entries) |-> JsonEntry(entries[i])]))

get_todays_time ==
    /\ CanInvoke("get_todays_time")
    /\ LET today == formatDate(clock)
       IN  /\ call' = [NoCall EXCEPT !.pc = "awaiting", !.tool = "get_todays_time",
                                     !.reqs = 1]
           /\ net' = net \cup {Request("get", "/time_entries",
                                       Some([from |-> today, to |-> today]), None, env)}
    /\ UNCHANGED <<suspended, phase, env, consts, stderr, exitCode, registered, clock,
                   rateLimiter, history>>

get_todays_time_resume(req, o) ==
    /\ call.pc = "awaiting"
    /\ call.tool = "get_todays_time"
    /\ req \in net
    /\ net' = net \ {req}
    /\ call' = [call EXCEPT !.pc = "done",
                            !.served = Append(@, o.data),
                            !.caught = IF o.kind = "error" THEN o.error
                                       ELSE TodaysTimeText(o.data).thrown,
                            !.envelope = IF o.kind = "error"
                                           THEN Caught(call.tool, o.error[1])
                                           ELSE Settle(call.tool, TodaysTimeText(o.data))]
    /\ UNCHANGED <<suspended, phase, env, consts, stderr, exitCode, registered, clock,
                   rateLimiter, history>>

(***************************************************************************)
(* Input schemas: the server validates the structured input of a tool call *)
(* against the registered schema before it runs the handler                *)
(***************************************************************************)
\* a JSON value of the input: a number v, kept in hundredths, or a string s
Num(h) == [t |-> "number", v |-> h, s |-> ""]

Str(x) == [t |-> "string", v |-> 0, s |-> x]

Digits == {"0", "1", "2", "3", "4", "5", "6", "7", "8", "9"}

\* z.number().int().positive()
ProjectIdSchema(x) == x.t = "number" /\ x.v % 100 = 0 /\ x.v > 0

TaskIdSchema(x) == x.t = "number" /\ x.v % 100 = 0 /\ x.v > 0

TimeEntryIdSchema(x) == x.t = "number" /\ x.v % 100 = 0 /\ x.v > 0

\* z.string().regex(/^\d{4}-\d{2}-\d{2}$/).optional()
SpentDateSchema(o) ==
    \/ o = <<>>
    \/ /\ o[1].t = "string"
       /\ Len(o[1].s) = 10
       /\ \A i \in {1, 2, 3, 4, 6, 7, 9, 10} : SubSeq(o[1].s, i, i) \in Digits
       /\ \A i \in {5, 8} : SubSeq(o[1].s, i, i) = "-"

\* z.number().min(0) without the ceiling
HoursSchema_NoCeiling(x) == x.t = "number" /\ x.v >= 0

\* z.number().min(0).max(24)
HoursSchema(x) == x.t = "number" /\ x.v >= 0 /\ x.v <= 24 * 100

\* z.string().max(65535).optional()
NotesSchema(o) == o = <<>> \/ (o[1].t = "string" /\ Len(o[1].s) <= 65535)

\* the inputSchema each tool is registered with, applied to the input raw
InputSchema(tool, raw) ==
    CASE tool = "list_project_tasks" ->
            raw.project_id # <<>> /\ ProjectIdSchema(raw.project_id[1])
      [] tool = "log_time" ->
            /\ raw.project_id # <<>> /\ ProjectIdSchema(raw.project_id[1])
            /\ raw.task_id # <<>> /\ TaskIdSchema(raw.task_id[1])
            /\ SpentDateSchema(raw.spent_date)
            /\ raw.hours # <<>> /\ HoursSchema(raw.hours[1])
            /\ NotesSchema(raw.notes)
      [] tool = "start_timer" ->
            /\ raw.project_id # <<>> /\ ProjectIdSchema(raw.project_id[1])
            /\ raw.task_id # <<>> /\ TaskIdSchema(raw.task_id[1])
            /\ NotesSchema(raw.notes)
      [] tool = "stop_timer" ->
            raw.time_entry_id # <<>> /\ TimeEntryIdSchema(raw.time_entry_id[1])
      [] tool = "update_time_entry" ->
            /\ raw.time_entry_id # <<>> /\ TimeEntryIdSchema(raw.time_entry_id[1])
            /\ raw.project_id = <<>> \/ ProjectIdSchema(raw.project_id[1])
            /\ raw.task_id = <<>> \/ TaskIdSchema(raw.task_id[1])
            /\ SpentDateSchema(raw.spent_date)
            /\ raw.hours = <<>> \/ HoursSchema(raw.hours[1])
            /\ NotesSchema(raw.notes)
      [] OTHER -> TRUE

\* the values the handler receives for a valid input: identifiers as
\* integers, hours in hundredths, strings as they are.  given keeps the input
\* as history
IntOf(o) == o[1].v \div 100

Opt(o, divisor) == IF o = <<>> THEN <<>> ELSE <<o[1].v \div divisor>>

OptStr(o) == IF o = <<>> THEN <<>> ELSE <<o[1].s>>

Parsed(tool, raw) ==
    CASE tool = "list_project_tasks" -> [project_id |-> IntOf(raw.project_id), given |-> raw]
      [] tool = "log_time" ->
            [project_id |-> IntOf(raw.project_id), task_id |-> IntOf(raw.task_id),
             spent_date |-> OptStr(raw.spent_date), hours |-> raw.hours[1].v,
             notes |-> OptStr(raw.notes), given |-> raw]
      [] tool = "start_timer" ->
            [project_id |-> IntOf(raw.project_id), task_id |-> IntOf(raw.task_id),
             notes |-> OptStr(raw.notes), given |-> raw]
      [] tool = "stop_timer" -> [time_entry_id |-> IntOf(raw.time_entry_id), given |-> raw]
      [] tool = "update_time_entry" ->
            [time_entry_id |-> IntOf(raw.time_entry_id),
             project_id |-> Opt(raw.project_id, 100), task_id |-> Opt(raw.task_id, 100),
             spent_date |-> OptStr(raw.spent_date), hours |-> Opt(raw.hours, 1),
             notes |-> OptStr(raw.notes), given |-> raw]
      [] OTHER -> <<>>

\* the input does not pass the schema: the handler is not run
Refuse(tool, raw) ==
    /\ CanInvoke(tool)
    /\ call' = [NoCall EXCEPT !.pc = "refused", !.tool = tool, !.args = [given |-> raw]]
    /\ UNCHANGED <<suspended, phase, env, consts, stderr, exitCode, registered, clock,
                   rateLimiter, net, history>>

\* a tools/call request for tool with structured input raw
CallTool(tool, raw) ==
    IF ~InputSchema(tool, raw) THEN Refuse(tool, raw)
    ELSE CASE tool = "list_projects"      -> list_projects
           [] tool = "list_project_tasks" -> list_project_tasks(Parsed(tool, raw))
           [] tool = "log_time"           -> log_time(Parsed(tool, raw))
           [] tool = "get_todays_time"    -> get_todays_time
           [] tool = "start_timer"        -> start_timer(Parsed(tool, raw))
           [] tool = "stop_timer"         -> stop_timer(Parsed(tool, raw))
           [] tool = "update_time_entry"  -> update_time_entry(Parsed(tool, raw))

(***************************************************************************)
(* Inputs: environments, tool arguments, upstream answers                  *)
(***************************************************************************)
\* the clock advances by one of these amounts
TickSteps == {RATE_LIMIT_WINDOW_MS - 1, RATE_LIMIT_WINDOW_MS}

AccountIds == {<<>>, <<"">>, <<"1234567">>}

Tokens == {<<>>, <<"">>, <<"tokA">>, <<"tokB">>}

UserAgents == {<<>>, <<"MyApp (ops@example.com)">>}

\* every environment the process may be started in
AllEnvs == {Env(a, t, u) : a \in AccountIds, t \in Tokens, u \in UserAgents}

\* an environment that passes the startup validation
GoodEnvs == {Env(<<"1234567">>, <<"tokA">>, <<>>)}

LogTimeArgs ==
    {[project_id |-> 12345, task_id |-> 67890, spent_date |-> d, hours |-> 250, notes |-> n] :
        d \in {<<>>, <<"2024-01-15">>}, n \in {<<>>, <<"Feature work">>}}

StartTimerArgs ==
    {[project_id |-> 12345, task_id |-> 67890, notes |-> n] : n \in {<<>>, <<"Feature work">>}}

StopTimerArgs == {[time_entry_id |-> 42]}

\* log_time and start_timer with and without a date, with notes absent, empty
\* and present, with hours 0 and 2.5
CreateLogArgs ==
    {[project_id |-> 12345, task_id |-> 67890, spent_date |-> d, hours |-> h, notes |-> n] :
        d \in {<<>>, <<"2024-01-15">>}, h \in {0, 250},
        n \in {<<>>, <<"">>, <<"Feature work">>}}

CreateTimerArgs ==
    {[project_id |-> 12345, task_id |-> 67890, notes |-> n] :
        n \in {<<>>, <<"">>, <<"Feature work">>}}

\* every subset of the five optional fields, hours and notes also with their
\* falsy values
UpdateArgs ==
    {[time_entry_id |-> 42, project_id |-> p, task_id |-> t, spent_date |-> d,
      hours |-> h, notes |-> n] :
        p \in {<<>>, <<12345>>}, t \in {<<>>, <<67890>>}, d \in {<<>>, <<"2024-01-15">>},
        h \in {<<>>, <<0>>, <<150>>}, n \in {<<>>, <<"">>, <<"Fixed">>}}

ListTasksArgs == {[project_id |-> 12345], [project_id |-> 777], [project_id |-> 999]}

\* one argument value per tool, for the specifications that study the throttle
OneOf(S) == {CHOOSE x \in S : TRUE}

\* a time entry as the upstream returns it
GoodEntry ==
    [id |-> <<42>>, hours |-> <<250>>, spent_date |-> <<"2024-01-15">>,
     notes |-> <<"Feature work">>, is_running |-> <<FALSE>>,
     project |-> <<[name |-> <<"Website">>]>>, task |-> <<[name |-> <<"Development">>]>>]

\* a body that lacks the fields the success text reads
BareEntry == [GoodEntry EXCEPT !.project = <<>>, !.notes = <<>>]

\* failure objects of every shape the formatters distinguish: with or without
\* a message, a response, a status 403 or another, a body, its message and
\* its error field
FailureMessages == {<<>>, <<"">>, <<"Request failed">>}

FailureBodies ==
    {<<>>} \cup {<<ErrorBody(m, e)>> : m \in {<<>>, <<"">>, <<"Forbidden">>},
                                      e \in {<<>>, <<"invalid_token">>}}

FailureResponses ==
    {<<>>} \cup {<<Response(<<st>>, d)>> : st \in {403, 404, 500}, d \in FailureBodies}

Failures(req) ==
    {ErrorObj("AxiosError", m, <<"ERR_BAD_REQUEST">>, r, <<req>>) :
        m \in FailureMessages, r \in FailureResponses}

\* the answers to a write request: all of them, and the two that the
\* specifications studying the throttle need
WriteOutcomes(req) ==
    {Ok(<<GoodEntry>>), Ok(<<BareEntry>>), Ok(<<>>),
     Fail(HttpFailure(req, 403, <<ErrorBody(<<"Forbidden">>, <<>>)>>)),
     Fail(HttpFailure(req, 422, <<ErrorBody(<<>>, <<"invalid_request">>)>>)),
     Fail(HttpFailure(req, 500, <<>>)),
     Fail(NetworkFailure(req))}
      \cup {Fail(f) : f \in Failures(req)}

FewWriteOutcomes(req) == {Ok(<<GoodEntry>>), Fail(NetworkFailure(req))}

TaskAssignment(id, active) ==
    [is_active |-> active, task |-> <<[id |-> <<id>>, name |-> <<"Development">>]>>,
     billable |-> <<TRUE>>, hourly_rate |-> <<>>]

\* project assignments as the upstream returns them
Assignment(id, active) ==
    [is_active |-> active,
     project |-> <<[id |-> <<id>>, name |-> <<"Website">>, code |-> <<>>]>>,
     client |-> <<>>, budget |-> <<>>,
     task_assignments |-> <<<<TaskAssignment(67890, TRUE)>>>>]

Assignments == {Assignment(12345, TRUE), Assignment(777, FALSE)}

\* assignments of every kind list_projects distinguishes: active or not, with
\* or without a project, a project name, a client, a client name, a budget
OddAssignments ==
    {Assignment(12345, TRUE),
     Assignment(777, FALSE),
     [Assignment(555, TRUE) EXCEPT !.client = <<[name |-> <<"Acme">>]>>,
                                   !.budget = <<5000>>],
     [Assignment(888, TRUE) EXCEPT !.client = <<[name |-> <<"">>]>>, !.budget = <<0>>],
     [Assignment(999, TRUE) EXCEPT !.project = <<>>],
     [Assignment(444, TRUE) EXCEPT
         !.project = <<[id |-> <<444>>, name |-> <<>>, code |-> <<"X1">>]>>],
     [Assignment(333, TRUE) EXCEPT
         !.project = <<[id |-> <<>>, name |-> <<"Nameless">>, code |-> <<>>]>>,
         !.client = <<[name |-> <<>>]>>]}

\* a first page of up to two such assignments, followed or not by a second
\* page of at most one
OddPageOutcomes(req) ==
    IF req.params[1].page = 1
      THEN {Ok(<<[project_assignments |-> <<l>>, next_page |-> n]>>) :
              l \in {<<>>} \cup {<<a>> : a \in OddAssignments}
                           \cup {<<a, b>> : a \in OddAssignments, b \in OddAssignments},
              n \in {<<>>, <<2>>}}
      ELSE {Ok(<<[project_assignments |-> <<l>>, next_page |-> <<>>]>>) :
              l \in {<<>>} \cup {<<a>> : a \in OddAssignments}}
             \cup {Fail(NetworkFailure(req))}

\* the same assignments and an active one for the project of the inactive one
RelatedAssignments == OddAssignments \cup {Assignment(777, TRUE)}

\* a first page of up to two of them, followed or not by a second page of at
\* most one
RelatedPageOutcomes(req) ==
    IF req.params[1].page = 1
      THEN {Ok(<<[project_assignments |-> <<l>>, next_page |-> n]>>) :
              l \in {<<>>} \cup {<<a>> : a \in RelatedAssignments}
                           \cup {<<a, b>> : a \in RelatedAssignments,
                                            b \in RelatedAssignments},
              n \in {<<>>, <<2>>}}
      ELSE {Ok(<<[project_assignments |-> <<l>>, next_page |-> <<>>]>>) :
              l \in {<<>>} \cup {<<a>> : a \in RelatedAssignments}}
             \cup {Fail(NetworkFailure(req))}

\* the project ids list_project_tasks is asked about
RelatedTasksArgs == {[project_id |-> id] : id \in {12345, 777, 555, 444, 999}}

\* the project_assignments array of a page: absent, empty, or up to two items
PageArrays ==
    {<<>>, <<<<>>>>}
      \cup {<<<<a>>>> : a \in Assignments}
      \cup {<<<<a, b>>>> : a \in Assignments, b \in Assignments}

\* page bodies: next_page absent, 0, or a page number
PageBodies ==
    {[project_assignments |-> pa, next_page |-> n] :
        pa \in PageArrays, n \in {<<>>, <<0>>, <<2>>, <<3>>}}

FewPageBodies ==
    {[project_assignments |-> <<<<Assignment(12345, TRUE)>>>>, next_page |-> n] :
        n \in {<<>>, <<2>>}}

PageOutcomes(req) ==
    {Ok(<<b>>) : b \in PageBodies} \cup {Ok(<<>>), Fail(NetworkFailure(req)),
       Fail(HttpFailure(req, 403, <<ErrorBody(<<"Forbidden">>, <<>>)>>))}

FewPageOutcomes(req) ==
    {Ok(<<b>>) : b \in FewPageBodies} \cup {Fail(NetworkFailure(req))}

\* page answers for the specification of the handlers: one or two pages, a
\* body without the array, no body, and the two kinds of failure
SomePageOutcomes(req) ==
    FewPageOutcomes(req)
      \cup {Ok(<<[project_assignments |-> <<>>, next_page |-> <<>>]>>), Ok(<<>>),
            Fail(HttpFailure(req, 403, <<ErrorBody(<<"Forbidden">>, <<>>)>>))}

EntriesOutcomes(req) ==
    {Ok(<<[time_entries |-> <<<<GoodEntry>>>>]>>), Fail(NetworkFailure(req))}

\* every kind of answer to the request of get_todays_time
AllEntriesOutcomes(req) ==
    EntriesOutcomes(req)
      \cup {Ok(<<[time_entries |-> <<<<>>>>]>>),
            Ok(<<[time_entries |-> <<<<GoodEntry, BareEntry>>>>]>>),
            Ok(<<[time_entries |-> <<>>]>>), Ok(<<>>),
            Fail(HttpFailure(req, 500, <<>>))}

\* time entries of 1, 2.25 and 0.5 hours, and a timer just started
TimedEntry(id, hours) == [GoodEntry EXCEPT !.id = <<id>>, !.hours = <<hours>>]

TimedEntries ==
    {TimedEntry(1, 100), TimedEntry(2, 225), TimedEntry(3, 50),
     [TimedEntry(4, 0) EXCEPT !.is_running = <<TRUE>>, !.notes = <<>>]}

\* the time_entries array of a day: up to three different entries in any order
EntryLists ==
    {<<>>} \cup {<<a>> : a \in TimedEntries}
      \cup {<<a, b>> : <<a, b>> \in {x \in TimedEntries \X TimedEntries : x[1] # x[2]}}
      \cup {<<a, b, c>> : <<a, b, c>> \in
               {x \in TimedEntries \X TimedEntries \X TimedEntries :
                   x[1] # x[2] /\ x[1] # x[3] /\ x[2] # x[3]}}

TodaysOutcomes(req) ==
    {Ok(<<[time_entries |-> <<l>>]>>) : l \in EntryLists}
      \cup {Ok(<<[time_entries |-> <<>>]>>), Fail(NetworkFailure(req))}

\* a request as a failure object of the client embeds it, credentials included
EmbeddedRequest ==
    Request("get", "/users/me", <<>>, <<>>, Env(<<"1234567">>, <<"tokA">>, <<>>))

\* JSON values a caller may put in an identifier, in hours, in a date and in
\* notes, valid and not
RawIds == {<<>>, <<Num(1234500)>>, <<Num(100)>>, <<Num(0)>>, <<Num(-100)>>, <<Num(150)>>,
           <<Str("12345")>>}

RawHours == {<<>>, <<Num(0)>>, <<Num(250)>>, <<Num(2400)>>, <<Num(-1)>>, <<Num(2401)>>,
             <<Str("2")>>}

RawDates == {<<>>, <<Str("2024-01-15")>>, <<Str("2024-1-15")>>, <<Str("15/01/2024")>>,
             <<Str("2024-01-15T00:00")>>, <<Str("2024-01-1a")>>, <<Str("")>>}

RECURSIVE Doubled(_, _)
\* the string x doubled n times
Doubled(x, n) == IF n = 0 THEN x ELSE Doubled(x \o x, n - 1)

\* notes of 65536 characters and of 65535
TooLongNotes == Doubled("n", 16)

LongestNotes == SubSeq(TooLongNotes, 1, 65535)

RawNotes == {<<>>, <<Str("")>>, <<Str("Feature work")>>, <<Str(LongestNotes)>>,
             <<Str(TooLongNotes)>>, <<Num(100)>>}

\* the inputs of each tool: a valid input with one field at a time replaced
\* by each of the values above
RawBase(tool) ==
    CASE tool = "list_project_tasks" -> [project_id |-> <<Num(1234500)>>]
      [] tool = "log_time" ->
            [project_id |-> <<Num(1234500)>>, task_id |-> <<Num(6789000)>>,
             spent_date |-> <<>>, hours |-> <<Num(250)>>, notes |-> <<>>]
      [] tool = "start_timer" ->
            [project_id |-> <<Num(1234500)>>, task_id |-> <<Num(6789000)>>,
             notes |-> <<>>]
      [] tool = "stop_timer" -> [time_entry_id |-> <<Num(4200)>>]
      [] tool = "update_time_entry" ->
            [time_entry_id |-> <<Num(4200)>>, project_id |-> <<>>, task_id |-> <<>>,
             spent_date |-> <<>>, hours |-> <<>>, notes |-> <<>>]
      [] OTHER -> <<>>

RawValues(field) ==
    CASE field \in {"project_id", "task_id", "time_entry_id"} -> RawIds
      [] field = "hours" -> RawHours
      [] field = "spent_date" -> RawDates
      [] field = "notes" -> RawNotes

RawInputs(tool) ==
    {RawBase(tool)} \cup
    {[RawBase(tool) EXCEPT ![f] = x] :
        <<f, x>> \in UNION {{f} \X RawValues(f) : f \in DOMAIN RawBase(tool)}}

\* the same request sent with another token
OtherEmbeddedRequest ==
    Request("get", "/users/me", <<>>, <<>>, Env(<<"1234567">>, <<"tokB">>, <<>>))

\* what main() may fail with: nothing, an Error or a TypeError with or without
\* a message, transport errors embedding different outgoing requests, upstream
\* refusals with different bodies, and an Error whose own message names the
\* account
ConnectErrors ==
    {<<>>, <<ErrorObj("Error", <<"transport failed">>, <<>>, <<>>, <<>>)>>,
     <<ErrorObj("TypeError", <<"transport failed">>, <<>>, <<>>, <<>>)>>,
     <<ErrorObj("Error", <<>>, <<>>, <<>>, <<>>)>>,
     <<ErrorObj("TypeError", <<>>, <<>>, <<>>, <<>>)>>,
     <<NetworkFailure(EmbeddedRequest)>>,
     <<NetworkFailure(OtherEmbeddedRequest)>>,
     <<HttpFailure(EmbeddedRequest, 401, <<ErrorBody(<<"Unauthorized">>, <<>>)>>)>>,
     <<HttpFailure(OtherEmbeddedRequest, 401,
                   <<ErrorBody(<<"Unauthorized">>, <<"invalid_token">>)>>)>>,
     <<ErrorObj("Error", <<"No access to account 1234567">>, <<>>, <<>>, <<>>)>>}

(***************************************************************************)
(* Specifications                                                          *)
(***************************************************************************)
Startup ==
    \/ LoadEnvironment
    \/ ValidateEnvironment
    \/ RegisterTool
    \/ MainConnected

\* the host invokes a write tool
InvokeWrite(LA, SA, PA, UA) ==
    \/ \E args \in LA : log_time(args)
    \/ \E args \in SA : start_timer(args)
    \/ \E args \in PA : stop_timer(args)
    \/ \E args \in UA : update_time_entry(args)

\* the upstream answers a write request, with any answer (every = TRUE) or
\* with one of the few answers
AnswerWrite(every) ==
    \E req \in net :
      \E o \in (IF every THEN WriteOutcomes(req) ELSE FewWriteOutcomes(req)) :
        \/ log_time_resume(req, o)
        \/ start_timer_resume(req, o)
        \/ stop_timer_resume(req, o)
        \/ update_time_entry_resume(req, o)

\* the host invokes a read tool
InvokeRead(TA) ==
    \/ list_projects
    \/ \E args \in TA : list_project_tasks(args)
    \/ get_todays_time

\* the upstream answers a read request, with any answer (every = TRUE) or
\* with one of the few answers
AnswerRead(every) ==
    \/ \E req \in net :
         \E o \in (IF every THEN PageOutcomes(req) ELSE FewPageOutcomes(req)) :
            listing_resume(req, o)
    \/ \E req \in net : \E o \in EntriesOutcomes(req) : get_todays_time_resume(req, o)

\* everything the program and its environment can do
Init == InitWith(AllEnvs)

Next ==
    \/ Startup
    \/ \E e \in ConnectErrors : MainFailed(e)
    \/ \E d \in TickSteps : Tick(d)
    \/ \E t \in Tokens : RotateToken(t)
    \/ InvokeWrite(LogTimeArgs, StartTimerArgs, StopTimerArgs, UpdateArgs)
    \/ AnswerWrite(TRUE)
    \/ InvokeRead(ListTasksArgs)
    \/ AnswerRead(TRUE)

Spec == Init /\ [][Next]_vars

\* the throttle under a passing clock: a validated environment, one argument
\* value per tool, writes and reads answered with success or failure
InitThrottle == InitWith(GoodEnvs)

NextThrottle ==
    \/ Startup
    \/ \E d \in TickSteps : Tick(d)
    \/ InvokeWrite(OneOf(LogTimeArgs), OneOf(StartTimerArgs), OneOf(StopTimerArgs),
                   OneOf(UpdateArgs))
    \/ AnswerWrite(FALSE)
    \/ InvokeRead(OneOf(ListTasksArgs))
    \/ AnswerRead(FALSE)

SpecThrottle == InitThrottle /\ [][NextThrottle]_vars

\* the listing tools against every page body, the clock standing still
NextPages ==
    \/ Startup
    \/ list_projects
    \/ \E args \in ListTasksArgs : list_project_tasks(args)
    \/ \E req \in net : \E o \in PageOutcomes(req) : listing_resume(req, o)

SpecPages == InitThrottle /\ [][NextPages]_vars

\* the lifecycle of the process in every environment, the token being
\* replaced at any moment, the clock standing still
NextLifecycle ==
    \/ Startup
    \/ \E e \in ConnectErrors : MainFailed(e)
    \/ \E t \in Tokens : RotateToken(t)
    \/ InvokeWrite(OneOf(LogTimeArgs), OneOf(StartTimerArgs), OneOf(StopTimerArgs),
                   OneOf(UpdateArgs))
    \/ AnswerWrite(FALSE)
    \/ InvokeRead(OneOf(ListTasksArgs))
    \/ AnswerRead(FALSE)

SpecLifecycle == Init /\ [][NextLifecycle]_vars

\* update_time_entry with every combination of its optional fields, the
\* clock standing still
NextUpdate ==
    \/ Startup
    \/ \E args \in UpdateArgs : update_time_entry(args)
    \/ \E req \in net : \E o \in FewWriteOutcomes(req) : update_time_entry_resume(req, o)

SpecUpdate == InitThrottle /\ [][NextUpdate]_vars

\* tool calls with valid and invalid structured input, the clock standing
\* still
NextInput ==
    \/ Startup
    \/ /\ attempts < MaxInputWrites
       /\ \E i \in 1..Len(Tools) : \E raw \in RawInputs(Tools[i]) : CallTool(Tools[i], raw)
    \/ AnswerWrite(FALSE)
    \/ AnswerRead(FALSE)

SpecInput == InitThrottle /\ [][NextInput]_vars

\* the seven handlers against every kind of upstream answer, the clock
\* standing still so that the throttle fills
NextHandlers ==
    \/ Startup
    \/ InvokeWrite(OneOf(LogTimeArgs), OneOf(StartTimerArgs), OneOf(StopTimerArgs),
                   OneOf(UpdateArgs))
    \/ AnswerWrite(TRUE)
    \/ InvokeRead(ListTasksArgs)
    \/ \E req \in net : \E o \in SomePageOutcomes(req) : listing_resume(req, o)
    \/ \E req \in net : \E o \in AllEntriesOutcomes(req) : get_todays_time_resume(req, o)

SpecHandlers == InitThrottle /\ [][NextHandlers]_vars

\* get_todays_time on successive days against days of up to three entries
NextToday ==
    \/ Startup
    \/ NextDay
    \/ get_todays_time
    \/ \E req \in net : \E o \in TodaysOutcomes(req) : get_todays_time_resume(req, o)

SpecToday == InitThrottle /\ [][NextToday]_vars

\* the two tools that create a time entry, on successive days
NextCreate ==
    \/ Startup
    \/ NextDay
    \/ \E args \in CreateLogArgs : log_time(args)
    \/ \E args \in CreateTimerArgs : start_timer(args)
    \/ \E req \in net : \E o \in FewWriteOutcomes(req) :
          \/ log_time_resume(req, o)
          \/ start_timer_resume(req, o)

SpecCreate == InitThrottle /\ [][NextCreate]_vars

\* list_projects against assignments of every kind
NextProjects ==
    \/ Startup
    \/ list_projects
    \/ \E req \in net : \E o \in OddPageOutcomes(req) : listing_resume(req, o)

SpecProjects == InitThrottle /\ [][NextProjects]_vars

\* log_time and stop_timer delivered while earlier invocations await the
\* upstream, under a passing clock
NextConcurrent ==
    \/ Startup
    \/ \E d \in TickSteps : Tick(d)
    \/ Suspend
    \/ \E x \in BagToSet(suspended) : Resume(x)
    \/ \E args \in OneOf(LogTimeArgs) : log_time(args)
    \/ \E args \in OneOf(StopTimerArgs) : stop_timer(args)
    \/ \E req \in net : \E o \in FewWriteOutcomes(req) :
          \/ log_time_resume(req, o)
          \/ stop_timer_resume(req, o)

SpecConcurrent == InitThrottle /\ [][NextConcurrent]_vars

\* invocations of one write tool and of the three read tools under a passing
\* clock, every request sent being answered in the end
NextLive ==
    \/ Startup
    \/ \E d \in TickSteps : Tick(d)
    \/ \E args \in OneOf(StopTimerArgs) : stop_timer(args)
    \/ InvokeRead(OneOf(ListTasksArgs))
    \/ \E req \in net : \E o \in FewWriteOutcomes(req) : stop_timer_resume(req, o)
    \/ AnswerRead(FALSE)

\* the upstream answers a request in flight and the handler resumes
Answered ==
    \/ \E req \in net : \E o \in FewWriteOutcomes(req) : stop_timer_resume(req, o)
    \/ AnswerRead(FALSE)

SpecLive == InitThrottle /\ [][NextLive]_vars /\ WF_vars(Answered)

\* list_projects and list_project_tasks against the same kinds of assignments
NextRelated ==
    \/ Startup
    \/ list_projects
    \/ \E args \in RelatedTasksArgs : list_project_tasks(args)
    \/ \E req \in net : \E o \in RelatedPageOutcomes(req) : listing_resume(req, o)

SpecRelated == InitThrottle /\ [][NextRelated]_vars

(***************************************************************************)
(* Properties of the write throttle (SpecThrottle)                         *)
(***************************************************************************)
Last(seq) == seq[Len(seq)]

\* the invocation in call is a write that the throttle rejected
IsRejection(c) == c.pc = "done" /\ c.tool \in WriteTools /\ c.reqs = 0

\* the step is the begin of a write handler / of a read handler
WriteAttempt ==
    /\ call.pc # "awaiting"
    /\ call' # call
    /\ call'.tool \in WriteTools
    /\ call'.pc # "refused"

ReadInvoke == call.pc # "awaiting" /\ call' # call /\ call'.tool \in ReadTools

ThrottleText ==
    "Harvest API error: Rate limit exceeded: maximum 30 write operations per 60s. Please wait before retrying."

\* C1: the admissions of the four write tools together that are less than
\* 60000 ms old never number more than 30, and the stored timestamp sequence
\* never holds more than 30 entries.
C1_WindowCeiling ==
    /\ Len(recent) <= 30
    /\ Len(rateLimiter.timestamps) <= 30

\* the window is full with admissions of two different instants, some answered
\* with success, and the latest write attempt was rejected
C1_Witness ==
    /\ Len(recent) = 30
    /\ recent[1] # recent[30]
    /\ anyOk
    /\ IsRejection(call)

\* C2: none of the first 30 write attempts is rejected by the throttle when
\* they are made less than 60000 ms after the first one.
C2_FirstThirtyAdmitted ==
    (attempts \in 1..30) => ~IsRejection(call)

\* the 30th attempt, made 59999 ms after the first, has been admitted
C2_Witness ==
    /\ attempts = 30
    /\ firstAt = <<0>>
    /\ clock = 59999
    /\ call.tool \in WriteTools
    /\ call.pc = "awaiting"
    /\ Last(rateLimiter.timestamps) = 59999

\* C3: a write attempt made while 30 admissions are less than 60000 ms old
\* sends nothing upstream and returns the error-flagged envelope whose text
\* names the ceiling and the window.
C3_RejectedBeforeNetwork ==
    [][(WriteAttempt /\ Len(recent) = 30) =>
          /\ net' = net
          /\ call'.pc = "done"
          /\ call'.reqs = 0
          /\ call'.envelope =
               [content |-> <<[type |-> "text",
                               text |-> CatchPrefix(call'.tool) \o ThrottleText]>>,
                isError |-> TRUE]]_vars

\* start_timer was rejected with the window full and nothing in flight
C3_Witness ==
    /\ IsRejection(call)
    /\ call.tool = "start_timer"
    /\ Len(recent) = 30
    /\ net = {}

\* C4: a write attempt made when every earlier admission is 60000 ms old or
\* older is admitted and sent upstream.
C4_AdmissionResumes ==
    [][(WriteAttempt /\ recent = <<>>) =>
          /\ call'.pc = "awaiting"
          /\ call'.reqs = 1
          /\ Cardinality(net') = Cardinality(net) + 1]_vars

\* after a rejection, with all earlier admissions exactly 60000 ms old, a
\* write has been admitted
C4_Witness ==
    /\ rejected
    /\ firstAt = <<0>>
    /\ clock = 60000
    /\ call.tool \in WriteTools
    /\ call.pc = "awaiting"
    /\ rateLimiter.timestamps = <<60000>>

\* C5: a step of a read handler leaves the throttle as it is, and a read
\* invoked while the write ceiling is exhausted sends its request upstream.
C5_ReadsNotThrottled ==
    [][/\ (call' # call /\ call'.tool \in ReadTools) =>
             /\ rateLimiter' = rateLimiter
             /\ UNCHANGED <<firstAt, attempts, recent, rejected>>
       /\ ReadInvoke =>
             /\ call'.pc = "awaiting"
             /\ call'.reqs = 1
             /\ Cardinality(net') = Cardinality(net) + 1
             /\ \A r \in net' \ net : r.method = "get"]_vars

\* a read is in flight while the write ceiling is exhausted
C5_Witness ==
    /\ call.tool \in ReadTools
    /\ call.pc = "awaiting"
    /\ net # {}
    /\ rejected
    /\ Len(recent) = 30
    /\ Len(rateLimiter.timestamps) = 30

\* C6: while an admitted write awaits the upstream its timestamp is already
\* stored, the answer (success or failure) leaves the throttle as it is, each
\* of the first 30 write calls of a minute has issued its request and the
\* 31st is rejected without one.
C6_SlotConsumedAtAdmission ==
    [][/\ (call'.tool \in WriteTools /\ call'.pc = "awaiting") =>
             /\ rateLimiter'.timestamps # <<>>
             /\ Len(rateLimiter'.timestamps) >= Len(recent')
       /\ (call'.tool \in WriteTools /\ attempts' \in 1..30) => call'.reqs = 1
       /\ (call'.tool \in WriteTools /\ attempts' = 31) => IsRejection(call')
       /\ (call.tool \in WriteTools /\ call.pc = "awaiting" /\ call'.pc = "done") =>
             rateLimiter' = rateLimiter]_vars

\* the 31st write call of the minute was rejected although no upstream call
\* had succeeded
C6_Witness ==
    /\ attempts = 31
    /\ ~anyOk
    /\ IsRejection(call)
    /\ Len(rateLimiter.timestamps) = 30

(***************************************************************************)
(* Properties of the pagination aggregator (SpecPages)                     *)
(***************************************************************************)
\* the invocation in call is one of the two listing tools
IsListing(c) == c.pc # "idle" /\ c.tool \in {"list_projects", "list_project_tasks"}

\* the project_assignments array of a served page body, [] when it has none
ItemsOf(served) ==
    IF served = <<>> THEN <<>>
    ELSE IF served[1].project_assignments = <<>> THEN <<>>
    ELSE served[1].project_assignments[1]

RECURSIVE Flatten(_)
\* the concatenation of the arrays of the pages in the order they were served
Flatten(pages) ==
    IF pages = <<>> THEN <<>> ELSE ItemsOf(pages[1]) \o Flatten(Tail(pages))

\* the aggregator has returned its list to the handler
AggregatorReturned(c) ==
    /\ IsListing(c)
    /\ c.pc = "done"
    /\ Len(c.served) = Len(c.asked)
    /\ Last(c.served) # <<>>

\* C7: the list the aggregator holds is at every moment the concatenation of
\* the project_assignments arrays of the pages served so far, in the order
\* served, and the list it returns is the concatenation of all k pages.
C7_Concatenation ==
    IsListing(call) =>
        /\ call.allAssignments = Flatten(call.served)
        /\ AggregatorReturned(call) =>
              \/ /\ call.tool = "list_projects"
                 /\ call.envelope = Envelope(ListProjectsText(Flatten(call.served)).text)
              \/ /\ call.tool = "list_project_tasks"
                 /\ call.envelope = ListProjectTasksEnvelope(Flatten(call.served),
                                                             call.args.project_id)

\* three pages of 2, 2 and 1 item were aggregated into a list of 5
C7_Witness ==
    /\ AggregatorReturned(call)
    /\ Len(call.served) = 3
    /\ Len(ItemsOf(call.served[1])) = 2
    /\ Len(ItemsOf(call.served[2])) = 2
    /\ Len(ItemsOf(call.served[3])) = 1
    /\ ItemsOf(call.served[1])[1] # ItemsOf(call.served[1])[2]
    /\ Len(call.allAssignments) = 5

\* C8: the first page request asks page 1, every later one asks the page the
\* previous answer named in next_page, every request has per_page 100, at most
\* one page request is unanswered at any time, and no request follows an
\* answer that names no next page.
C8_SequentialPaging ==
    IsListing(call) =>
        /\ call.asked # <<>>
        /\ call.asked[1] = 1
        /\ \A i \in 2..Len(call.asked) :
              /\ call.served[i - 1] # <<>>
              /\ call.served[i - 1][1].next_page = <<call.asked[i]>>
              /\ call.asked[i] # 0
        /\ Cardinality(net) <= 1
        /\ \A r \in net :
              /\ r.method = "get"
              /\ r.url = "/users/me/project_assignments"
              /\ r.params = <<[per_page |-> 100, page |-> Last(call.asked)]>>
        /\ call.pc = "awaiting" => (Cardinality(net) = 1 /\ Len(call.served) = Len(call.asked) - 1)
        /\ call.pc = "done" => net = {}
        /\ AggregatorReturned(call) =>
              Last(call.served)[1].next_page \in {<<>>, <<0>>}

\* the upstream named page 3 after page 1 and page 2 after page 3, and the
\* aggregator followed it and stopped at the answer without a next page
C8_Witness ==
    /\ AggregatorReturned(call)
    /\ call.asked = <<1, 3, 2>>
    /\ Len(call.served) = 3

\* the project id occurs in an assignment of some served page
OnSomePage(c, id) ==
    \E i \in 1..Len(c.served) :
        \E j \in 1..Len(ItemsOf(c.served[i])) :
            LET pa == ItemsOf(c.served[i])[j]
            IN  pa.project # <<>> /\ pa.project[1].id = <<id>>

\* the string s begins with the string prefix
BeginsWith(s, prefix) ==
    Len(s) >= Len(prefix) /\ SubSeq(s, 1, Len(prefix)) = prefix

\* C18: once every page is aggregated, list_project_tasks answers a
\* project_id that is on no page with the error-flagged text beginning "No
\* project assignment found for project_id <id>", never with a task list, and
\* answers a project_id that is on some page with a task list, never with
\* not-found.
C18_NotFound ==
    (AggregatorReturned(call) /\ call.tool = "list_project_tasks") =>
        LET id   == call.args.project_id
            said == call.envelope.content[1].text
            notFound == BeginsWith(said, "No project assignment found for project_id "
                                            \o ToString(id))
        IN  IF OnSomePage(call, id)
              THEN /\ ~notFound
                   /\ ~IsErrorEnvelope(call.envelope)
                   /\ BeginsWith(said, "[")
              ELSE /\ notFound
                   /\ IsErrorEnvelope(call.envelope)
                   /\ said # "[]"

\* three non-empty pages were aggregated, none of them holding project 999,
\* and not-found was answered
C18_Witness ==
    /\ AggregatorReturned(call)
    /\ call.tool = "list_project_tasks"
    /\ call.args.project_id = 999
    /\ Len(call.served) = 3
    /\ Len(call.allAssignments) = 5
    /\ IsErrorEnvelope(call.envelope)
    /\ call.envelope.content[1].text =
          "No project assignment found for project_id 999. If this project exists but isn't listed, you may not be assigned to it in Harvest."

(***************************************************************************)
(* Properties of the credentials and of startup (SpecLifecycle)            *)
(***************************************************************************)
\* C9: every request leaves with the Authorization, Harvest-Account-Id and
\* User-Agent headers computed from process.env as it is when the request is
\* sent.
C9_HeadersAtSendTime ==
    [][\A r \in net' \ net :
          /\ r.headers["Authorization"] =
                <<IF env'.HARVEST_ACCESS_TOKEN = <<>> THEN "Bearer undefined"
                  ELSE "Bearer " \o env'.HARVEST_ACCESS_TOKEN[1]>>
          /\ r.headers["Harvest-Account-Id"] = env'.HARVEST_ACCOUNT_ID
          /\ r.headers["User-Agent"] =
                (IF env'.HARVEST_USER_AGENT \in {<<>>, <<"">>}
                   THEN <<"Harvest MCP Server">> ELSE env'.HARVEST_USER_AGENT)]_vars

\* the process started with token tokA, the token was replaced, and a request
\* in flight carries the new one
C9_Witness ==
    /\ consts.HARVEST_ACCESS_TOKEN = <<"tokA">>
    /\ env.HARVEST_ACCESS_TOKEN = <<"tokB">>
    /\ call.pc = "awaiting"
    /\ \E r \in net : r.headers["Authorization"] = <<"Bearer tokB">>

\* the account identifier or the access token was absent or empty when the
\* top-level code read the environment
StartedWithoutSecret ==
    /\ phase # "load"
    /\ \/ consts.HARVEST_ACCOUNT_ID \in {<<>>, <<"">>}
       \/ consts.HARVEST_ACCESS_TOKEN \in {<<>>, <<"">>}

\* C10: a process started without one of the two secrets goes from the
\* validation straight to exit status 1 with the diagnostic on the error
\* stream; no tool is registered, the transport is never connected, no
\* invocation is handled and no request is sent.
C10_FailFast ==
    StartedWithoutSecret =>
        /\ phase \in {"validate", "exited"}
        /\ registered = <<>>
        /\ call.pc = "idle"
        /\ net = {}
        /\ phase = "exited" =>
              /\ exitCode = <<1>>
              /\ stderr = <<"Error: HARVEST_ACCOUNT_ID and HARVEST_ACCESS_TOKEN must be set in environment or .env file">>

\* started with the account identifier but without the token, the process
\* has exited
C10_Witness ==
    /\ phase = "exited"
    /\ consts.HARVEST_ACCOUNT_ID = <<"1234567">>
    /\ consts.HARVEST_ACCESS_TOKEN = <<>>
    /\ exitCode = <<1>>

(***************************************************************************)
(* Properties of the envelopes and of the formatters (SpecHandlers)        *)
(***************************************************************************)
\* the envelope holds one text item and nothing but the optional error flag
WellFormed(e) ==
    /\ DOMAIN e \in {{"content"}, {"content", "isError"}}
    /\ Len(e.content) = 1
    /\ DOMAIN e.content[1] = {"type", "text"}
    /\ e.content[1].type = "text"

\* sub occurs in the string s
Contains(s, sub) ==
    \E i \in 1..(Len(s) - Len(sub) + 1) : SubSeq(s, i, i + Len(sub) - 1) = sub

\* the text of the envelope of the invocation in call
TextOf(c) == c.envelope.content[1].text

\* the envelope is the one the catch block of the handler builds for the
\* failure it caught
FromFormatter(c) ==
    /\ c.caught # <<>>
    /\ IsErrorEnvelope(c.envelope)
    /\ TextOf(c) = CatchPrefix(c.tool) \o formatHarvestError(c.caught[1])

\* C11 as stated: an invocation returns one well-formed envelope, the envelope
\* is error-flagged exactly when a failure ended the try block, and the text
\* of every error-flagged envelope is the formatter's rendering of a failure.
C11_AsStated ==
    /\ call.pc = "done" <=> call.envelope # <<>>
    /\ call.pc = "done" =>
          /\ WellFormed(call.envelope)
          /\ IsErrorEnvelope(call.envelope) <=> call.caught # <<>>
          /\ IsErrorEnvelope(call.envelope) => FromFormatter(call)

\* list_project_tasks returned its own not-found text: no failure was caught
NotFoundReturned(c) ==
    /\ c.tool = "list_project_tasks"
    /\ c.caught = <<>>
    /\ IsErrorEnvelope(c.envelope)
    /\ TextOf(c) =
          "No project assignment found for project_id " \o ToString(c.args.project_id)
            \o ". If this project exists but isn't listed, you may not be assigned to it in Harvest."

\* C11 (amended): an invocation returns exactly one well-formed envelope; a
\* failure that ends the try block gives an error-flagged envelope whose text
\* is the formatter's rendering of that failure; the only other error-flagged
\* envelope is the not-found answer of list_project_tasks with its fixed text.
C11_OneEnvelope ==
    /\ call.pc = "done" <=> call.envelope # <<>>
    /\ call.pc = "done" =>
          /\ WellFormed(call.envelope)
          /\ call.caught # <<>> => FromFormatter(call)
          /\ IsErrorEnvelope(call.envelope) =>
                (FromFormatter(call) \/ NotFoundReturned(call))

\* get_todays_time was answered with success by a body lacking a field the
\* handler reads, and returned the error-flagged rendering of the TypeError
C11_Witness ==
    /\ call.pc = "done"
    /\ call.tool = "get_todays_time"
    /\ call.caught # <<>>
    /\ call.caught[1].name = "TypeError"
    /\ call.envelope =
          [content |-> <<[type |-> "text",
                          text |-> "Error fetching today's time: Harvest API error: Cannot read properties of undefined (reading 'name')"]>>,
           isError |-> TRUE]

\* the first of the upstream body's message, the body's error field and the
\* failure's own message that is present and not empty, else "Unknown error"
FirstMessage(e) ==
    LET body == IF e.response = <<>> THEN <<>> ELSE e.response[1].data
    IN  IF body # <<>> /\ body[1].message \notin {<<>>, <<"">>} THEN body[1].message[1]
        ELSE IF body # <<>> /\ body[1].error \notin {<<>>, <<"">>} THEN body[1].error[1]
        ELSE IF e.message \notin {<<>>, <<"">>} THEN e.message[1]
        ELSE "Unknown error"

\* C14: the text a catch block returns for the failure it caught is the
\* handler's prefix followed, for status 403, by "Harvest API error (403): ",
\* the message and the fixed remediation hint, and for any other failure by
\* "Harvest API error (<status>): <message>", the parenthesised status being
\* left out when the failure has no response; the message is the first
\* present of body message, body error, failure message, "Unknown error".
C14_UserFacingText ==
    (call.pc = "done" /\ call.caught # <<>>) =>
        LET e      == call.caught[1]
            status == IF e.response = <<>> THEN <<>> ELSE e.response[1].status
            said   == TextOf(call)
        IN  IF status = <<403>>
              THEN /\ said = CatchPrefix(call.tool) \o "Harvest API error (403): "
                               \o FirstMessage(e)
                               \o ". This usually means your token lacks permission for that endpoint. Try using endpoints under /users/me/* (like /users/me/project_assignments), and verify HARVEST_ACCOUNT_ID matches the token's account."
                   /\ Contains(said, "/users/me/*")
                   /\ Contains(said, "verify HARVEST_ACCOUNT_ID")
              ELSE IF status = <<>>
              THEN said = CatchPrefix(call.tool) \o "Harvest API error: " \o FirstMessage(e)
              ELSE said = CatchPrefix(call.tool) \o "Harvest API error ("
                            \o ToString(status[1]) \o "): " \o FirstMessage(e)

\* a 403 whose body has only an error field, the failure having a message of
\* its own, was rendered with the body's error field and the hint
C14_Witness ==
    /\ call.pc = "done"
    /\ call.tool = "log_time"
    /\ call.caught # <<>>
    /\ call.caught[1].message = <<"Request failed">>
    /\ call.caught[1].response = <<Response(<<403>>, <<ErrorBody(<<"">>, <<"invalid_token">>)>>)>>
    /\ TextOf(call) = "Error logging time: Harvest API error (403): invalid_token. This usually means your token lacks permission for that endpoint. Try using endpoints under /users/me/* (like /users/me/project_assignments), and verify HARVEST_ACCOUNT_ID matches the token's account."

\* C17: every stop_timer call made while the write ceiling is not reached,
\* whatever was stopped before, sends one PATCH to the stop sub-resource of
\* the entry, and a failure the upstream answers with is returned as the
\* error-flagged rendering of that failure.
C17_StopAlwaysForwarded ==
    [][/\ (WriteAttempt /\ call'.tool = "stop_timer" /\ Len(recent) < 30) =>
             /\ call'.pc = "awaiting"
             /\ Cardinality(net' \ net) = 1
             /\ \A r \in net' \ net : /\ r.method = "patch"
                                       /\ r.url = "/time_entries/42/stop"
                                       /\ r.data = <<>>
       /\ (call'.tool = "stop_timer" /\ call'.pc = "done") =>
             /\ IsErrorEnvelope(call'.envelope) => FromFormatter(call')
             /\ call'.reqs = 0 => Len(recent) = 30]_vars

\* the entry had been stopped; a second stop_timer on it went upstream and
\* the upstream's refusal came back as the error text
C17_Witness ==
    /\ 42 \in stopped
    /\ call.tool = "stop_timer"
    /\ call.args.time_entry_id = 42
    /\ call.pc = "done"
    /\ call.reqs = 1
    /\ call.envelope =
          [content |-> <<[type |-> "text",
                          text |-> "Error stopping timer: Harvest API error (422): invalid_request"]>>,
           isError |-> TRUE]

\* C19: a write invocation issues at most one request and one exactly when
\* it is admitted; a listing invocation issues a further request only after a
\* successful answer; the step in which a failure is caught ends the
\* invocation with the rendering of that failure, sends nothing and leaves
\* nothing in flight.
C19_NoRetry ==
    [][/\ call'.tool \in WriteTools =>
             /\ call'.reqs <= 1
             /\ call'.pc = "awaiting" => (call'.reqs = 1 /\ Cardinality(net') = 1)
       /\ call'.tool \in {"list_projects", "list_project_tasks"} =>
             call'.reqs <= Len(call'.served) + 1
       /\ call'.tool = "get_todays_time" => call'.reqs <= 1
       /\ (call.pc = "awaiting" /\ call' # call) =>
             /\ call'.reqs >= call.reqs
             /\ call'.reqs > call.reqs => call'.caught = <<>>
       /\ (call.pc = "awaiting" /\ call'.caught # <<>>) =>
             /\ call'.pc = "done"
             /\ call'.reqs = call.reqs
             /\ net' = {}
             /\ FromFormatter(call')]_vars

\* list_projects got its first page and a transport error for the second: it
\* made two requests and returned the error
C19_Witness ==
    /\ call.tool = "list_projects"
    /\ call.pc = "done"
    /\ call.reqs = 2
    /\ Len(call.served) = 1
    /\ net = {}
    /\ call.envelope =
          [content |-> <<[type |-> "text",
                          text |-> "Error fetching projects: Harvest API error: Network Error"]>>,
           isError |-> TRUE]

(***************************************************************************)
(* Properties of update_time_entry (SpecUpdate)                            *)
(***************************************************************************)
OptionalFields == {"project_id", "task_id", "spent_date", "hours", "notes"}

\* the optional fields the caller supplied
Supplied(args) == {f \in OptionalFields : args[f] # <<>>}

\* C15: the body of the PATCH that update_time_entry sends has exactly the
\* supplied optional fields as keys, each with the supplied value (0 and ""
\* included), and never time_entry_id; with only hours supplied it has one
\* field.
C15_PatchBody ==
    (call.tool = "update_time_entry" /\ call.pc = "awaiting") =>
        /\ Cardinality(net) = 1
        /\ \A r \in net :
              /\ r.method = "patch"
              /\ r.url = "/time_entries/42"
              /\ r.data # <<>>
              /\ DOMAIN r.data[1] = Supplied(call.args)
              /\ "time_entry_id" \notin DOMAIN r.data[1]
              /\ \A f \in DOMAIN r.data[1] : r.data[1][f] = call.args[f][1]
              /\ Supplied(call.args) = {"hours"} => Cardinality(DOMAIN r.data[1]) = 1

\* hours = 0 and notes = "" were supplied and nothing else, and the body in
\* flight holds exactly these two
C15_Witness ==
    /\ call.tool = "update_time_entry"
    /\ call.pc = "awaiting"
    /\ Supplied(call.args) = {"hours", "notes"}
    /\ \E r \in net : /\ DOMAIN r.data[1] = {"hours", "notes"}
                       /\ r.data[1]["hours"] = 0
                       /\ r.data[1]["notes"] = ""

\* the invocation in c is update_time_entry without any optional field
EmptyUpdate(c) == c.tool = "update_time_entry" /\ Supplied(c.args) = {}

\* C16: update_time_entry without any optional field, invoked while the
\* write ceiling is not reached, stores one timestamp and sends one PATCH to
\* the entry with an empty body; when the upstream answers, the envelope is
\* the success text or the rendering of the upstream's failure.
C16_EmptyPatchSent ==
    [][/\ (WriteAttempt /\ EmptyUpdate(call') /\ Len(recent) < 30) =>
             /\ call'.pc = "awaiting"
             /\ call'.reqs = 1
             /\ Len(rateLimiter'.timestamps) = Len(recent) + 1
             /\ Cardinality(net' \ net) = 1
             /\ \A r \in net' \ net : /\ r.method = "patch"
                                       /\ r.url = "/time_entries/42"
                                       /\ r.data # <<>>
                                       /\ DOMAIN r.data[1] = {}
       /\ (EmptyUpdate(call') /\ call'.pc = "done" /\ call'.reqs = 0) =>
             /\ Len(recent) = 30
             /\ TextOf(call') = "Error updating time entry: " \o ThrottleText
       /\ (EmptyUpdate(call) /\ call.pc = "awaiting" /\ call'.pc = "done") =>
             /\ net' = {}
             /\ IF call'.caught = <<>>
                  THEN call'.envelope =
                         [content |-> <<[type |-> "text",
                                         text |-> "Successfully updated time entry 42\nProject: Website\nTask: Development\nHours: 2.5\nDate: 2024-01-15\nNotes: Feature work"]>>]
                  ELSE /\ call'.caught[1].name = "AxiosError"
                       /\ FromFormatter(call')]_vars

\* the first write of the process was an empty update; it used a throttle
\* slot, went upstream and was answered with success
C16_Witness ==
    /\ EmptyUpdate(call)
    /\ call.pc = "done"
    /\ call.reqs = 1
    /\ attempts = 1
    /\ rateLimiter.timestamps = <<0>>
    /\ ~IsErrorEnvelope(call.envelope)

(***************************************************************************)
(* Properties of the input schemas (SpecInput)                             *)
(***************************************************************************)
\* the value, when given, is not a positive integer
NotPositiveInteger(o) ==
    o # <<>> /\ ~(o[1].t = "number" /\ o[1].v >= 100 /\ o[1].v % 100 = 0)

\* the hours, when given, are below 0 or above 24
HoursOutOfRange(o) ==
    o # <<>> /\ o[1].t = "number" /\ (o[1].v < 0 \/ o[1].v > 2400)

\* the date, when given, is not 4 digits, a dash, 2 digits, a dash, 2 digits
DateMalformed(o) ==
    /\ o # <<>>
    /\ o[1].t = "string"
    /\ \/ Len(o[1].s) # 10
       \/ [i \in 1..10 |-> IF SubSeq(o[1].s, i, i) \in Digits THEN "d"
                            ELSE SubSeq(o[1].s, i, i)]
             # <<"d", "d", "d", "d", "-", "d", "d", "-", "d", "d">>

\* the notes, when given, are longer than 65535 characters
NotesTooLong(o) == o # <<>> /\ o[1].t = "string" /\ Len(o[1].s) > 65535

\* the input violates one of the declared constraints
Violates(raw) ==
    \E f \in DOMAIN raw :
        CASE f \in {"project_id", "task_id", "time_entry_id"} -> NotPositiveInteger(raw[f])
          [] f = "hours" -> HoursOutOfRange(raw[f])
          [] f = "spent_date" -> DateMalformed(raw[f])
          [] f = "notes" -> NotesTooLong(raw[f])

\* the tools registered with a schema that has fields
HasInput(c) ==
    c.tool \in {"list_project_tasks", "log_time", "start_timer", "stop_timer",
                "update_time_entry"}

\* C20: a call whose input violates a declared constraint is refused, the
\* handler not being run; a refused call sends nothing and leaves the throttle
\* and its history as they are; every body sent upstream has positive integer
\* identifiers and hours between 0 and 24.
C20_InvalidInputRefused ==
    [][/\ (HasInput(call') /\ Violates(call'.args.given)) => call'.pc = "refused"
       /\ (call' # call /\ call'.pc = "refused") =>
             /\ net' = net
             /\ rateLimiter' = rateLimiter
             /\ UNCHANGED <<firstAt, attempts, recent, rejected>>
       /\ \A r \in net' :
             (r.method \in {"post", "patch"} /\ r.data # <<>>) =>
                 /\ \A f \in DOMAIN r.data[1] \cap {"project_id", "task_id"} :
                       r.data[1][f] \in Nat \ {0}
                 /\ "hours" \in DOMAIN r.data[1] => r.data[1]["hours"] \in 0..2400]_vars

\* after one admitted write, log_time with hours 24.01 was refused: nothing
\* in flight, the throttle still holding the one timestamp
C20_Witness ==
    /\ call.pc = "refused"
    /\ call.tool = "log_time"
    /\ call.args.given.hours = <<Num(2401)>>
    /\ net = {}
    /\ attempts = 1
    /\ rateLimiter.timestamps = <<0>>

(***************************************************************************)
(* Properties of the process lifecycle and of the log (SpecLifecycle)      *)
(***************************************************************************)
\* C12: once the startup validation has passed the process exits only from
\* main()'s catch, with status 1 and one line "Fatal error in main(): "
\* followed by the log-safe rendering of the failure; a running server never
\* exits, whatever its handlers meet, and whenever no invocation is awaiting
\* the upstream every registered tool can be invoked again.
C12_OnlyMainTerminates ==
    [][/\ (phase # "exited" /\ phase' = "exited" /\ phase # "validate") =>
             /\ phase = "main"
             /\ exitCode' = <<1>>
             /\ \E e \in ConnectErrors :
                   stderr' = Append(stderr, "Fatal error in main(): "
                                              \o sanitizeErrorForLogging(e))
       /\ phase = "running" =>
             /\ phase' = "running"
             /\ exitCode' = <<>>
             /\ stderr' = stderr
       /\ (phase' = "running" /\ call'.pc # "awaiting") =>
             \A i \in 1..Len(Tools) : CanInvoke(Tools[i])']_vars

\* after a throttle rejection and an upstream failure the server handles a
\* further invocation
C12_Witness ==
    /\ phase = "running"
    /\ exitCode = <<>>
    /\ rejected
    /\ ~anyOk
    /\ call.pc = "awaiting"
    /\ call.tool = "list_projects"

\* C13: no line written to the error stream contains the access token or the
\* account identifier the process was started with.
C13_NoCredentialInLog ==
    \A i \in 1..Len(stderr) :
        /\ TruthyStr(consts.HARVEST_ACCESS_TOKEN) =>
              ~Contains(stderr[i], consts.HARVEST_ACCESS_TOKEN[1])
        /\ TruthyStr(consts.HARVEST_ACCOUNT_ID) =>
              ~Contains(stderr[i], consts.HARVEST_ACCOUNT_ID[1])

(***************************************************************************)
(* The README's statement on rate limiting (SpecHandlers)                  *)
(***************************************************************************)
\* C21: no invocation is rejected by the server itself on account of the
\* calls made before it: every write invocation that has begun has sent its
\* request upstream.
C21_NoLocalRejection ==
    (call.tool \in WriteTools /\ call.pc \in {"awaiting", "done"}) =>
        /\ call.reqs = 1
        /\ ~IsRejection(call)

(***************************************************************************)
(* Properties of get_todays_time (SpecToday)                               *)
(***************************************************************************)
\* the positions at which sub occurs in the string s
Occurrences(s, sub) ==
    {i \in 1..(Len(s) - Len(sub) + 1) : SubSeq(s, i, i + Len(sub) - 1) = sub}

\* the k-th smallest member of a set of numbers
Nth(S, k) == CHOOSE x \in S : Cardinality({y \in S : y < x}) = k - 1

RECURSIVE TotalUpTo(_, _)
\* the hours of the first n entries added up, in hundredths
TotalUpTo(entries, n) ==
    IF n = 0 THEN 0 ELSE TotalUpTo(entries, n - 1) + entries[n].hours[1]

\* a number of hundredths written with two decimals
TwoDecimals(h) ==
    ToString(h \div 100) \o "." \o ToString((h % 100) \div 10) \o ToString(h % 10)

\* the calendar date of the day the clock value ms falls on
DayOf(ms) == "1970-01-0" \o ToString(ms \div 86400000 + 1)

\* C22: get_todays_time sends one GET /time_entries whose from and to are
\* both the date of the clock at the invocation, and nothing more when it
\* resumes; the summary line of its answer gives the number of entries
\* returned and the sum of their hours with two decimals; the entries are
\* listed one for one in the upstream order.
C22_TodaySummary ==
    [][/\ (call' # call /\ call'.tool = "get_todays_time" /\ call'.pc = "awaiting") =>
             /\ Cardinality(net') = 1
             /\ \A r \in net' :
                   /\ r.method = "get"
                   /\ r.url = "/time_entries"
                   /\ r.data = <<>>
                   /\ r.params = <<[from |-> DayOf(clock), to |-> DayOf(clock)]>>
       /\ (call.tool = "get_todays_time" /\ call.pc = "awaiting" /\ call' # call) =>
             /\ call'.pc = "done"
             /\ call'.reqs = 1
             /\ net' = {}
       /\ (call'.tool = "get_todays_time" /\ call'.pc = "done" /\ call'.caught = <<>>) =>
             LET entries == call'.served[1][1].time_entries[1]
                 n       == Len(entries)
                 said    == TextOf(call')
                 ids     == Occurrences(said, "\"id\": ")
             IN  /\ BeginsWith(said, "Today's time entries (" \o ToString(n) \o " total, "
                                        \o TwoDecimals(TotalUpTo(entries, n))
                                        \o " hours):\n\n")
                 /\ Cardinality(ids) = n
                 /\ Cardinality(Occurrences(said, "\"hours\": ")) = n
                 /\ \A k \in 1..n :
                       SubSeq(said, Nth(ids, k) + 6, Nth(ids, k) + 7)
                          = ToString(entries[k].id[1]) \o ","]_vars

\* on the second day the upstream returned entries of 1, 2.25 and 0.5 hours
\* in the order 3, 1, 2, and the answer says "3 total, 3.75 hours"
C22_Witness ==
    /\ call.tool = "get_todays_time"
    /\ call.pc = "done"
    /\ clock = 86400000
    /\ call.caught = <<>>
    /\ Len(call.served[1][1].time_entries[1]) = 3
    /\ [i \in 1..3 |-> call.served[1][1].time_entries[1][i].id] = <<<<3>>, <<1>>, <<2>>>>
    /\ BeginsWith(TextOf(call), "Today's time entries (3 total, 3.75 hours):\n\n[\n  {\n    \"id\": 3,")
    /\ ~IsErrorEnvelope(call.envelope)

(***************************************************************************)
(* Properties of the log-safe formatter (SpecLifecycle)                    *)
(***************************************************************************)
\* the two failure objects have the same top-level message, response status,
\* response body message and error code
SameAllowList(a, b) ==
    /\ a.message = b.message
    /\ StatusOf(a) = StatusOf(b)
    /\ DataMessageOf(a) = DataMessageOf(b)
    /\ a.code = b.code

\* C23: whatever main() rejects with, one line is logged, and the line
\* logged for a failure object is the line that any failure object with the
\* same four allow-listed fields gives, whatever its other fields are.
C23_AllowListOnly ==
    fatal # <<>> =>
        /\ stderr # <<>>
        /\ BeginsWith(Last(stderr), "Fatal error in main(): ")
        /\ \A e \in ConnectErrors :
              (fatal[1] # <<>> /\ e # <<>> /\ SameAllowList(fatal[1][1], e[1])) =>
                  Last(stderr) = "Fatal error in main(): " \o sanitizeErrorForLogging(e)

(***************************************************************************)
(* Properties of the create bodies (SpecCreate)                            *)
(***************************************************************************)
\* C24: an admitted log_time sends one POST /time_entries whose body has
\* exactly project_id, task_id, spent_date, hours and notes, the date being
\* the supplied one or else today's and the notes the supplied ones or else
\* ""; an admitted start_timer sends one whose body has exactly project_id,
\* task_id, spent_date and notes, the date being today's, and no hours.
C24_CreateBody ==
    [][(WriteAttempt /\ call'.pc = "awaiting") =>
          /\ Cardinality(net' \ net) = 1
          /\ \A r \in net' \ net :
                LET a == call'.args
                IN  /\ r.method = "post"
                    /\ r.url = "/time_entries"
                    /\ r.data # <<>>
                    /\ r.data[1].project_id = a.project_id
                    /\ r.data[1].task_id = a.task_id
                    /\ r.data[1].notes = (IF a.notes = <<>> THEN "" ELSE a.notes[1])
                    /\ call'.tool = "log_time" =>
                          /\ DOMAIN r.data[1] =
                                {"project_id", "task_id", "spent_date", "hours", "notes"}
                          /\ r.data[1].hours = a.hours
                          /\ r.data[1].spent_date =
                                (IF a.spent_date = <<>> THEN DayOf(clock)
                                 ELSE a.spent_date[1])
                    /\ call'.tool = "start_timer" =>
                          /\ DOMAIN r.data[1] =
                                {"project_id", "task_id", "spent_date", "notes"}
                          /\ "hours" \notin DOMAIN r.data[1]
                          /\ r.data[1].spent_date = DayOf(clock)]_vars

\* on the second day log_time without date and notes, with hours 0, is in
\* flight with that day's date and empty notes
C24_Witness ==
    /\ call.tool = "log_time"
    /\ call.pc = "awaiting"
    /\ clock = 86400000
    /\ call.args.spent_date = <<>>
    /\ call.args.notes = <<>>
    /\ \E r \in net : r.data = <<[project_id |-> 12345, task_id |-> 67890,
                                    spent_date |-> "1970-01-02", hours |-> 0,
                                    notes |-> ""]>>

(***************************************************************************)
(* Properties of list_projects (SpecProjects)                              *)
(***************************************************************************)
\* the assignment is active and its project has an id and a name
Listable(pa) ==
    /\ pa.is_active
    /\ pa.project # <<>>
    /\ pa.project[1].id # <<>>
    /\ pa.project[1].name # <<>>

\* the part of the text from the k-th of the positions to the next of them
Segment(s, positions, k) ==
    SubSeq(s, Nth(positions, k),
           IF k < Cardinality(positions) THEN Nth(positions, k + 1) - 1 ELSE Len(s))

\* C25: the answer of list_projects lists one element for each aggregated
\* assignment that is active and whose project has an id and a name, in the
\* upstream order, and no other; each element has is_billable null, the
\* client's name or else "No client", and the assignment's budget or else
\* null.
C25_ProjectList ==
    (AggregatorReturned(call) /\ call.tool = "list_projects") =>
        LET listed == SelectSeq(Flatten(call.served), Listable)
            said   == TextOf(call)
            ids    == Occurrences(said, "\"id\": ")
        IN  /\ ~IsErrorEnvelope(call.envelope)
            /\ Cardinality(ids) = Len(listed)
            /\ Cardinality(Occurrences(said, "\"name\": ")) = Len(listed)
            /\ Len(listed) = 0 => said = "[]"
            /\ \A k \in 1..Len(listed) :
                  LET pa   == listed[k]
                      elem == Segment(said, ids, k)
                  IN  /\ BeginsWith(elem, "\"id\": " \o ToString(pa.project[1].id[1])
                                              \o ",\n")
                      /\ Contains(elem, "\"is_billable\": null,\n")
                      /\ Contains(elem,
                            "\"client\": \""
                              \o (IF pa.client = <<>> \/ pa.client[1].name \in {<<>>, <<"">>}
                                    THEN "No client" ELSE pa.client[1].name[1])
                              \o "\",\n")
                      /\ Contains(elem,
                            "\"budget\": "
                              \o (IF pa.budget = <<>> THEN "null"
                                  ELSE ToString(pa.budget[1] \div 100))
                              \o "\n")

\* two pages were aggregated: an inactive assignment and one with client Acme
\* and budget 50 on the first, one with an empty client name and budget 0 on
\* the second; the answer lists the two active ones in that order
C25_Witness ==
    /\ AggregatorReturned(call)
    /\ call.tool = "list_projects"
    /\ Len(call.served) = 2
    /\ [i \in 1..Len(call.allAssignments) |-> ProjectField(call.allAssignments[i], "id")]
          = <<<<777>>, <<555>>, <<888>>>>
    /\ TextOf(call) =
          "[\n  {\n    \"id\": 555,\n    \"name\": \"Website\",\n    \"client\": \"Acme\",\n    \"is_billable\": null,\n    \"budget\": 50\n  },\n  {\n    \"id\": 888,\n    \"name\": \"Website\",\n    \"client\": \"No client\",\n    \"is_billable\": null,\n    \"budget\": 0\n  }\n]"

(***************************************************************************)
(* Properties of the throttle under concurrent delivery (SpecConcurrent)   *)
(***************************************************************************)
\* the step is the begin of a write handler, not the return to a suspended one
ConcurrentAttempt == WriteAttempt /\ suspended' = suspended

\* the stored timestamps that are less than one window old
InWindow(rl, now) == SelectSeq(rl.timestamps, LAMBDA ts : now - ts < RATE_LIMIT_WINDOW_MS)

\* C26: with write invocations delivered while others await the upstream,
\* the timestamps stored in the window are at every moment exactly the
\* admissions made in it, never more than 30; an attempt made with fewer than
\* 30 admissions in the window is admitted and adds one timestamp, and an
\* attempt made with 30 is rejected, however many handlers are suspended.
C26_AtomicAdmission ==
    [][/\ Len(recent') <= 30
       /\ InWindow(rateLimiter', clock') = recent'
       /\ (ConcurrentAttempt /\ Len(recent) < 30) =>
             /\ call'.pc = "awaiting"
             /\ recent' = Append(recent, clock)
             /\ Len(rateLimiter'.timestamps) = Len(recent) + 1
       /\ (ConcurrentAttempt /\ Len(recent) = 30) =>
             /\ IsRejection(call')
             /\ net' = net
             /\ recent' = recent]_vars

\* three writes are suspended at their await, the window holds 30 admissions
\* and the attempt made after the one that took the last slot was rejected
C26_Witness ==
    /\ BagCardinality(suspended) = 3
    /\ \A x \in BagToSet(suspended) : x.call.tool \in WriteTools
    /\ Len(recent) = 30
    /\ recent[28] = clock
    /\ IsRejection(call)

(***************************************************************************)
(* Properties of rejected attempts (SpecThrottle)                          *)
(***************************************************************************)
\* C27: a write attempt that the throttle rejects leaves in the throttle
\* exactly the timestamps that were less than one window old, adding none,
\* and leaves the admissions as they were; whatever was rejected before, an
\* attempt made with fewer than 30 admissions less than one window old is
\* admitted.
C27_RejectionRecordsNothing ==
    [][/\ (WriteAttempt /\ IsRejection(call')) =>
             /\ rateLimiter'.timestamps = InWindow(rateLimiter, clock)
             /\ Len(rateLimiter'.timestamps) = 30
             /\ \A i \in 1..30 : rateLimiter'.timestamps[i] = recent[i]
             /\ recent' = recent
       /\ (WriteAttempt /\ Len(recent) < 30) =>
             /\ call'.pc = "awaiting"
             /\ rateLimiter'.timestamps = Append(recent, clock)]_vars

\* 30 writes were admitted at time 0; the attempts made after them at time 0
\* and at 59999 were all rejected, and the throttle holds the 30 timestamps
\* of time 0 and nothing else
C27_Witness ==
    /\ IsRejection(call)
    /\ clock = 59999
    /\ attempts = 32
    /\ firstAt = <<0>>
    /\ rateLimiter.timestamps = [i \in 1..30 |-> 0]

(***************************************************************************)
(* Properties of a failed page request (SpecPages)                         *)
(***************************************************************************)
\* the step is the return of a listing handler whose page request failed
PageRequestFailed ==
    /\ IsListing(call)
    /\ call.pc = "awaiting"
    /\ call'.pc = "done"
    /\ call'.served = call.served

\* C28: when the request for a page fails, whatever pages were served before
\* it, the listing handler returns in that step: no further page is asked
\* and nothing stays in flight, and the envelope is error-flagged with the
\* rendering of the failure as its whole text, which holds no project or
\* task list and no not-found message.
C28_FailedPageStops ==
    [][PageRequestFailed =>
          /\ call'.asked = call.asked
          /\ call'.reqs = Len(call.served) + 1
          /\ net' = {}
          /\ IsErrorEnvelope(call'.envelope)
          /\ TextOf(call') \in
                {CatchPrefix(call.tool) \o "Harvest API error: Network Error",
                 CatchPrefix(call.tool) \o "Harvest API error (403): Forbidden"
                    \o PermissionHint}
          /\ ~Contains(TextOf(call'), "[")
          /\ ~Contains(TextOf(call'), "\"id\"")
          /\ ~Contains(TextOf(call'), "No project assignment found")]_vars

\* two pages holding project 12345 were served and the request for the third
\* failed: list_project_tasks for 12345 answered with the failure alone
C28_Witness ==
    /\ call.tool = "list_project_tasks"
    /\ call.args.project_id = 12345
    /\ call.pc = "done"
    /\ Len(call.asked) = 3
    /\ Len(call.served) = 2
    /\ OnSomePage(call, 12345)
    /\ net = {}
    /\ call.envelope =
          [content |-> <<[type |-> "text",
                          text |-> "Error fetching tasks: Harvest API error: Network Error"]>>,
           isError |-> TRUE]

(***************************************************************************)
(* Termination of an invocation (SpecLive)                                 *)
(***************************************************************************)
\* the page just served names no next page
LastPageServed ==
    /\ IsListing(call)
    /\ Len(call'.served) = Len(call.served) + 1
    /\ Last(call'.served) # <<>>
    /\ Last(call'.served)[1].next_page \in {<<>>, <<0>>}

\* C29: when every request sent is answered in the end and the chain of next
\* pages ends, an invocation that awaits the upstream returns; the aggregator
\* returns in the step in which the page without a next page is served,
\* having made one request for each page, and asks the page named by every
\* other answer, asked before or not; while no answer arrives the invocation
\* stays as it is, however much time passes.
C29_Returns ==
    /\ (call.pc = "awaiting") ~> (call.pc = "done")
    /\ [][/\ LastPageServed =>
               /\ call'.pc = "done"
               /\ call'.reqs = Len(call'.served)
               /\ net' = {}
          /\ (IsListing(call) /\ Len(call'.served) = Len(call.served) + 1
                /\ Last(call'.served) # <<>>
                /\ Last(call'.served)[1].next_page \notin {<<>>, <<0>>}) =>
               /\ call'.pc = "awaiting"
               /\ call'.reqs = call.reqs + 1
               /\ \A r \in net' : r.params[1].page = Last(call'.served)[1].next_page[1]
          /\ (call.pc = "awaiting" /\ call' # call) =>
               /\ clock' = clock
               /\ call'.pc = "done" \/ Len(call'.served) = Len(call.served) + 1
          /\ (call.pc = "awaiting" /\ clock' # clock) => (call' = call /\ net' = net)]_vars

\* two minutes after the start of the server the upstream has named page 2
\* twice: the aggregator asked page 2 twice and returned after three requests
C29_Witness ==
    /\ AggregatorReturned(call)
    /\ call.asked = <<1, 2, 2>>
    /\ call.reqs = 3
    /\ clock = 119999

(***************************************************************************)
(* list_projects and list_project_tasks on the same data (SpecRelated)     *)
(***************************************************************************)
\* the project ids list_projects reports for assignments
ListedIds(assignments) ==
    {pa.project[1].id[1] : pa \in {assignments[i] : i \in
                                     {j \in 1..Len(assignments) : Listable(assignments[j])}}}

\* the answer of list_project_tasks says that no assignment was found
SaysNotFound(e, project_id) ==
    /\ IsErrorEnvelope(e)
    /\ BeginsWith(e.content[1].text,
                  "No project assignment found for project_id " \o ToString(project_id))

\* C30: on the same aggregated assignments every project id that list_projects
\* reports is one for which list_project_tasks finds an assignment: a returned
\* list_project_tasks asked about a reported id does not answer not-found,
\* and for every id in the text of a returned list_projects the answer of
\* list_project_tasks is a task list.
C30_ListedIsFound ==
    AggregatorReturned(call) =>
        LET upstream == Flatten(call.served)
        IN  /\ call.tool = "list_project_tasks" =>
                  /\ call.args.project_id \in ListedIds(upstream) =>
                        ~SaysNotFound(call.envelope, call.args.project_id)
                  /\ Contains(ListProjectsText(upstream).text,
                              "\"id\": " \o ToString(call.args.project_id) \o ",\n") =>
                        ~IsErrorEnvelope(call.envelope)
            /\ call.tool = "list_projects" =>
                  \A a \in RelatedTasksArgs :
                     Contains(TextOf(call), "\"id\": " \o ToString(a.project_id) \o ",\n") =>
                        /\ a.project_id \in ListedIds(upstream)
                        /\ ~IsErrorEnvelope(ListProjectTasksEnvelope(upstream, a.project_id))

\* the upstream returned an inactive assignment of project 777 and an active
\* one of project 555: list_project_tasks asked about 555, which list_projects
\* reports, answered its tasks; on the same data project 777 is found by
\* list_project_tasks and not reported by list_projects
C30_Witness ==
    /\ AggregatorReturned(call)
    /\ call.tool = "list_project_tasks"
    /\ call.args.project_id = 555
    /\ [i \in 1..Len(call.allAssignments) |-> ProjectField(call.allAssignments[i], "id")]
          = <<<<777>>, <<555>>>>
    /\ ~call.allAssignments[1].is_active
    /\ ListedIds(Flatten(call.served)) = {555}
    /\ ~IsErrorEnvelope(call.envelope)
    /\ BeginsWith(TextOf(call), "[\n  {\n    \"id\": 67890,")
    /\ ~IsErrorEnvelope(ListProjectTasksEnvelope(call.allAssignments, 777))
    /\ ~Contains(ListProjectsText(call.allAssignments).text, "777")

====
